---- MODULE Spec2Model ----
(***************************************************************************)
(* A model of flex-contract: the event watcher (EventWatcher._init,        *)
(* _poll, close), the transaction promise wrapper (wrapSendTxPromise),     *)
(* deployment through new(), and ABI overload resolution (findDef,         *)
(* parseFunctionArgs).                                                     *)
(*                                                                         *)
(* The current revision of the library is src/unnamed/part_005; the        *)
(* earlier revision src/src/index.js is modelled where it is the only      *)
(* place the behaviour lives (confirmation counting, the receipt status    *)
(* check, the address-keyed ABI cache).                                    *)
(*                                                                         *)
(* JavaScript null/undefined is modelled by the integer NIL so that it     *)
(* can be compared with block numbers and argument values.                 *)
(***************************************************************************)
EXTENDS Integers, Sequences, FiniteSets, TLC

\* ------------------------------------------------------------------------
\* Bounds of the model.
\* ------------------------------------------------------------------------
MaxBlock == 3        \* blocks the chain can grow to
MaxTimers == 2       \* timer identities available to setTimeout
MaxInflight == 2     \* _poll activations that may be suspended at once
MaxConfEvents == 3   \* 'confirmation' events delivered for one transaction
MaxConfirmedCalls == 1  \* calls of confirmed() on one transaction
MaxOrderedCalls == 2 \* the same, where the order of the 'confirmation' events is recorded
MaxConf == 2         \* confirmation numbers below the maximum that are delivered
MaxSendCalls == 2    \* calls of confirmed() on one send() of the current revision
MaxOverloads == 3    \* definitions of one name in an ABI
MaxLogs == 2         \* blocks (one log each at most) an event query ranges over
MaxCloseCalls == 2   \* calls of close() that are counted
MaxReceiptLogs == 2  \* logs in one receipt
MaxCallArgs == 2     \* arguments of one invocation
MaxOutputs == 2      \* outputs of one function, inputs of one event
MaxRawValue == 2     \* distinct values the ABI decoder hands over
MaxDirective == 3    \* the largest block directive
MaxHeight == 3       \* the largest height of the chain in a query

\* null / undefined
NIL == -1

\* Values an event argument (and a filter value) can take.
Vals == {1, 2}

VARIABLES
    \* ---- the chain behind the RPC collaborator
    chain,          \* chain[b]: the decoded args of the log in block b, <<>> if none
    \* ---- EventWatcher fields
    args,           \* this._args: the positional filter values (NIL = null)
    stop,           \* this._stop
    inst,           \* this._inst ("inst" or "null")
    timer,          \* this._timer: a timer id, or NIL
    lastBlock,      \* this._lastBlock, NIL while undefined
    filter,         \* this._filter.topics, <<>> while unset
    \* ---- control state
    initPc,         \* where _init is suspended
    polls,          \* the suspended activations of _poll
    pendingTimers,  \* timers armed in the event loop
    \* ---- observations
    fetched,        \* the ranges of the successful getPastLogs calls, in order
    emitted,        \* the blocks of the 'data' events emitted, in order
    errors,         \* number of 'error' events emitted
    watchHeight,    \* chain height when watch() was called
    initBlock,      \* the height _init read, NIL before
    pollFailures,   \* 1 once a poll has ended in a failed RPC, 0 before; NIL if not recorded
    closeCalls,     \* number of calls of close(); NIL if not recorded
    failedFrom,     \* fromBlock of a getPastLogs that failed since the last fetch, 0 if none; NIL if not recorded
    \* ---- a binding and one transaction sent through it (src/src/index.js)
    isDeploy,       \* the transaction was started by new()
    address,        \* the binding's _address
    ABI_CACHE,      \* module.exports.ABI_CACHE: the addresses it has a key for
    promise,        \* state of the sendTx() promise handed to wrapSendTxPromise
    listening,      \* the listeners attached to `sent` when promise resolved
    receipt,        \* wrapSendTxPromise's `receipt` cell, <<>> while undefined
    confirmations,  \* wrapSendTxPromise's `confirmations` counter
    wrapper,        \* the promise send() returns (also its .receipt)
    txId,           \* the .txId promise
    confirmedCalls, \* the promises returned by confirmed(count), in call order
    chainPc,        \* a consumer doing `await r.txId; await r.receipt`
    txReceipt,      \* the receipt the node will report for the transaction
    hashEmitted,    \* 'transactionHash' has been emitted
    receiptEmitted, \* 'receipt': "no", or emitted and "heard" / "unheard" by the wrapper
    errorEmitted,   \* 'error' has been emitted
    confEvents,     \* number of 'confirmation' events emitted
    lastConfirmation, \* the number carried by the last 'confirmation' handled
    confOrder,      \* whether the 'confirmation' numbers came in order; NIL if not recorded
    assignments,    \* how often the deployment has assigned _address
    initAddress,    \* _address when the transaction was sent
    \* ---- one send() of the current revision (wrapSendTxPromise over flex-ether)
    sendViaNew,     \* the bound call came from new()
    mined,          \* what the node will report: success, and the contractAddress
    boundAddress,   \* the binding's _address
    sent,           \* state of the promise `sent` (sendBoundFunction's async body)
    sentWaiters,    \* the continuations suspended at `await sent`, in order
    tx,             \* state of flex-ether's transaction promise, "none" before send
    sendReceipt,    \* wrapSendTxPromise's `receipt` cell, <<>> while null
    receiptWrites,  \* how often the `receipt` cell has been assigned
    sendWrapper,    \* the promise send() returns (also its .receipt)
    wrapperPc,      \* where the wrapper's async body is suspended
    reactions,      \* the callbacks registered on the wrapper promise, in order
    microtasks,     \* the promise job queue (FIFO)
    sendConfirmed,  \* the calls of confirmed(), in call order
    consumerPc,     \* a consumer doing `await` on the send() promise
    consumerSaw,    \* the _address that consumer read when it resumed
    sendTxId,       \* the promise wrapper.txId of that send()
    txIdPc,         \* where the async body of wrapper.txId stands
    txHash,         \* flex-ether's promise tx.txId
    \* ---- one call of a generated method or of new() (findDef, parseFunctionArgs)
    findDefs,       \* the definitions findDef is given
    findFilter,     \* its filter: the type ("" if none) and the args array
    findPc,         \* "called", then "bound", "noDef" or "badArgs"
    foundDef,       \* the definition findDef returned
    parsedArgs,     \* what parseFunctionArgs returned
    \* ---- one bound event call: a since() query, then a watcher, over the same logs
    eventDef,       \* the event definition: the inputs with their indexed flags
    eventArgs,      \* the positional filter values parseFunctionArgs returned
    eventLogs,      \* eventLogs[b]: the values of the event raised in block b, <<>> if none
    eventPc,        \* where the query, then the watcher, stands
    sinceTopics,    \* the topics of getPastEvents' filter, <<>> before
    sinceEvents,    \* the blocks of the events since() resolved with
    watchTopics,    \* the topics of the watcher's _filter, <<>> before
    watchEvents,    \* the blocks of the events the watcher's poll emitted
    \* ---- the bindings of one process and the receipts they augment
    revision,       \* which revision of the library runs
    built,          \* the bindings constructed so far
    bindAddress,    \* bindAddress[i]: the _address of binding i
    abiCache,       \* the keys of ABI_CACHE of index.js, as they were written
    ensPending,     \* an ENS resolution started by the address setter is under way
    EVENT_CACHE,    \* the event signatures in EVENT_CACHE of the current revision
    augmented,      \* the last receipt augmented: its sender, logs and result
    \* ---- one invocation of an accessor and one operation of its bound call
    callDef,        \* the definition of the accessor's name in the ABI
    callGiven,      \* the arguments of the invocation
    callOptsTo,     \* opts.to (opts.address) of the operation
    callAddress,    \* the address of the binding
    callOptsData,   \* whether the options of the operation carry call data
    callBytecode,   \* whether the binding or the options have bytecode
    callPc,         \* where the invocation, then the operation, stands
    callBound,      \* the definition of the bound call
    callMode,       \* the operation called, "" before
    callTo,         \* the address the operation works with, before resolution
    resolvedTo,     \* and as the collaborator resolved it
    requests,       \* the requests made to the collaborators, in order
    callResult,     \* how the operation ended, "" before
    \* ---- decoding the outputs of one call or the arguments of one log
    decodeKind,     \* what is decoded: the result of a "call" or a "log"
    decOutputs,     \* the outputs of the function, the inputs of the event
    decValues,      \* the values the ABI decoder hands over, by position
    decodePc,       \* "encoded", then "decoded"
    decodeResult,   \* what the caller receives
    \* ---- the block range of one query for past events (src/src/index.js)
    dirFrom,        \* opts.fromBlock, a number
    dirTo,          \* opts.toBlock, a number
    latestBlock,    \* the height of the chain
    blockPc,        \* where getPastEvents stands with its two directives
    filterFrom,     \* filter.fromBlock once resolved
    filterTo,       \* filter.toBlock once resolved
    readFrom,       \* the height read for fromBlock, NIL if none was read
    readTo,         \* the height read for toBlock, NIL if none was read
    logsRequests,   \* the filters handed to getPastLogs, in order
    \* ---- the gas limit and gas price of one transaction (src/src/index.js)
    instGasBonus,       \* the binding's gasBonus, in percent
    instGasPriceBonus,  \* the binding's gasPriceBonus, in percent
    optsGasBonus,       \* opts.gasBonus in percent, NIL if omitted
    optsGasPriceBonus,  \* opts.gasPriceBonus in percent, NIL if omitted
    optsGasLimit,       \* opts.gasLimit, NIL if omitted
    optsGasPrice,       \* opts.gasPrice, NIL if omitted
    estimate,           \* what eth.estimateGas answers
    networkPrice,       \* what eth.getGasPrice answers
    gasPc,              \* where sendTx stands
    txGasPrice,         \* callOpts.gasPrice, NIL while unset
    txGasLimit,         \* callOpts.gasLimit, NIL while unset
    \* ---- a binding and its clone
    cloneRevision,  \* "current" (part_005) or "index.js" (src/src/index.js)
    bindings,       \* binding 1 is the original, 2 the clone: the fields of each
    eths,           \* the fields of the eth objects the bindings point to
    clonePc,        \* "original" before clone() is called, "cloned" after
    cloneOpts,      \* the options clone() was called with
    assigned        \* the binding last assigned to, 0 if none since clone()

watchVars == <<chain, args, stop, inst, timer, lastBlock, filter, initPc, polls,
               pendingTimers, fetched, emitted, errors, watchHeight, initBlock,
               pollFailures, closeCalls, failedFrom>>

\* The records of the watcher's history.
watchHistory == <<pollFailures, closeCalls, failedFrom>>

txVars == <<isDeploy, address, ABI_CACHE, promise, listening, receipt, confirmations,
            wrapper, txId, confirmedCalls, chainPc, txReceipt, hashEmitted,
            receiptEmitted, errorEmitted, confEvents, lastConfirmation, confOrder,
            assignments, initAddress>>

sendVars == <<sendViaNew, mined, boundAddress, sent, sentWaiters, tx, sendReceipt,
              receiptWrites, sendWrapper, wrapperPc, reactions, microtasks,
              sendConfirmed, consumerPc, consumerSaw, sendTxId, txIdPc, txHash>>

findVars == <<findDefs, findFilter, findPc, foundDef, parsedArgs>>

eventVars == <<eventDef, eventArgs, eventLogs, eventPc, sinceTopics, sinceEvents,
               watchTopics, watchEvents>>

bindVars == <<revision, built, bindAddress, abiCache, ensPending, EVENT_CACHE,
              augmented>>

callVars == <<callDef, callGiven, callOptsTo, callAddress, callOptsData, callBytecode, callPc,
              callBound, callMode, callTo, resolvedTo, requests, callResult>>

decodeVars == <<decodeKind, decOutputs, decValues, decodePc, decodeResult>>

blockVars == <<dirFrom, dirTo, latestBlock, blockPc, filterFrom, filterTo,
               readFrom, readTo, logsRequests>>

gasVars == <<instGasBonus, instGasPriceBonus, optsGasBonus, optsGasPriceBonus,
             optsGasLimit, optsGasPrice, estimate, networkPrice, gasPc,
             txGasPrice, txGasLimit>>

cloneVars == <<cloneRevision, bindings, eths, clonePc, cloneOpts, assigned>>

vars == <<watchVars, txVars, sendVars, findVars, eventVars, bindVars, callVars, decodeVars, blockVars, gasVars, cloneVars>>

\* What the steps of one part of the model leave alone.
nonWatchVars == <<txVars, sendVars, findVars, eventVars, bindVars, callVars, decodeVars, blockVars, gasVars, cloneVars>>
nonTxVars == <<watchVars, sendVars, findVars, eventVars, bindVars, callVars, decodeVars, blockVars, gasVars, cloneVars>>
nonSendVars == <<watchVars, txVars, findVars, eventVars, bindVars, callVars, decodeVars, blockVars, gasVars, cloneVars>>
nonFindVars == <<watchVars, txVars, sendVars, eventVars, bindVars, callVars, decodeVars, blockVars, gasVars, cloneVars>>
nonEventVars == <<watchVars, txVars, sendVars, findVars, bindVars, callVars, decodeVars, blockVars, gasVars, cloneVars>>
nonBindVars == <<watchVars, txVars, sendVars, findVars, eventVars, callVars, decodeVars, blockVars, gasVars, cloneVars>>
nonCallVars == <<watchVars, txVars, sendVars, findVars, eventVars, bindVars, decodeVars, blockVars, gasVars, cloneVars>>
nonDecodeVars == <<watchVars, txVars, sendVars, findVars, eventVars, bindVars, callVars, blockVars, gasVars, cloneVars>>
nonBlockVars == <<watchVars, txVars, sendVars, findVars, eventVars, bindVars, callVars, decodeVars, gasVars, cloneVars>>
nonGasVars == <<watchVars, txVars, sendVars, findVars, eventVars, bindVars, callVars, decodeVars, blockVars, cloneVars>>
nonCloneVars == <<watchVars, txVars, sendVars, findVars, eventVars, bindVars, callVars, decodeVars, blockVars, gasVars>>

\* ------------------------------------------------------------------------
\* Event definition and codec, as far as the watcher uses them.
\* ------------------------------------------------------------------------

\* event SingleEvent(address indexed a, uint256 b)
WatchDef == << [name |-> "a", indexed |-> TRUE], [name |-> "b", indexed |-> FALSE] >>

\* encodeParameter: a value becomes one 32-byte word.
encodeParameter(v) == <<v>>

\* The decoding of one word.
decodeValue(w) == w[1]

\* _.times(n, () => null)
Nulls(n) == [i \in 1..n |-> NIL]

RECURSIVE SelectIndexed(_, _, _)
\* The loop of resolveCallArgs over an array of args with indexedOnly.
SelectIndexed(def, a, i) ==
    IF i > Len(def) THEN <<>>
    ELSE IF def[i].indexed THEN <<a[i]>> \o SelectIndexed(def, a, i + 1)
         ELSE SelectIndexed(def, a, i + 1)

\* resolveCallArgs(inst, args, def, {partial: true, indexedOnly: true}) for
\* array args: the values of the indexed inputs, then nulls up to inputs.length.
resolveCallArgs(def, a) ==
    LET r == SelectIndexed(def, a, 1)
    IN  r \o Nulls(Len(def) - Len(r))

RECURSIVE TopicArgs(_, _, _)
\* The loop of encodeLogTopicsFilter: one entry per indexed input i, taken
\* from args[i]; <<>> is the null (wildcard) topic.
TopicArgs(def, a, i) ==
    IF i > Len(def) THEN <<>>
    ELSE IF def[i].indexed
         THEN << (IF a[i] # NIL THEN encodeParameter(a[i]) ELSE <<>>) >>
              \o TopicArgs(def, a, i + 1)
         ELSE TopicArgs(def, a, i + 1)

\* coder.encodeLogTopicsFilter(def, args): the signature, then the topics.
encodeLogTopicsFilter(def, a) == << <<"sig">> >> \o TopicArgs(def, a, 1)

RECURSIVE IndexedWords(_, _, _)
IndexedWords(def, v, i) ==
    IF i > Len(def) THEN <<>>
    ELSE IF def[i].indexed THEN <<encodeParameter(v[i])>> \o IndexedWords(def, v, i + 1)
         ELSE IndexedWords(def, v, i + 1)

RECURSIVE DataWords(_, _, _)
DataWords(def, v, i) ==
    IF i > Len(def) THEN <<>>
    ELSE IF ~def[i].indexed THEN <<encodeParameter(v[i])>> \o DataWords(def, v, i + 1)
         ELSE DataWords(def, v, i + 1)

\* The raw log a node stores for an event of definition def raised with
\* values v in block b.
RawLog(def, v, b) ==
    [topics |-> << <<"sig">> >> \o IndexedWords(def, v, 1),
     data |-> DataWords(def, v, 1),
     blockNumber |-> b]

\* Number of indexed inputs among def[1..i].
RECURSIVE IndexedBefore(_, _)
IndexedBefore(def, i) ==
    IF i = 0 THEN 0
    ELSE IndexedBefore(def, i - 1) + (IF def[i].indexed THEN 1 ELSE 0)

\* coder.decodeLogItemArgs: indexed inputs from topics[1:], the others from
\* data, put back in input order.
decodeLogItemArgs(def, log) ==
    [i \in 1..Len(def) |->
        IF def[i].indexed
        THEN decodeValue(log.topics[1 + IndexedBefore(def, i)])
        ELSE decodeValue(log.data[i - IndexedBefore(def, i)])]

\* decodeLogItem(def, log)
decodeLogItem(def, log) ==
    [args |-> decodeLogItemArgs(def, log), blockNumber |-> log.blockNumber]

\* testEventArgs(log, args): every non-nil filter value equals the decoded one.
testEventArgs(log, a) ==
    \A i \in 1..Len(a) : a[i] = NIL \/ log.args[i] = a[i]

\* The node's topic matching of eth_getLogs: a null topic matches anything.
TopicsMatch(topics, log) ==
    /\ Len(log.topics) >= Len(topics)
    /\ \A i \in 1..Len(topics) : topics[i] = <<>> \/ topics[i] = log.topics[i]

RECURSIVE LogsInRange(_, _, _, _)
\* eth.getPastLogs({topics, fromBlock, toBlock}) on chain c, in block order.
LogsInRange(c, topics, from, to) ==
    IF from > to \/ from > Len(c) THEN <<>>
    ELSE LET raw == RawLog(WatchDef, c[from], from)
         IN  (IF c[from] # <<>> /\ TopicsMatch(topics, raw) THEN <<raw>> ELSE <<>>)
             \o LogsInRange(c, topics, from + 1, to)

\* _.filter(_.map(raw, decodeLogItem), log => testEventArgs(log, args))
RECURSIVE DecodeAndFilter(_, _)
DecodeAndFilter(raw, a) ==
    IF raw = <<>> THEN <<>>
    ELSE LET log == decodeLogItem(WatchDef, Head(raw))
         IN  (IF testEventArgs(log, a) THEN <<log.blockNumber>> ELSE <<>>)
             \o DecodeAndFilter(Tail(raw), a)

\* ------------------------------------------------------------------------
\* EventWatcher
\* ------------------------------------------------------------------------

Height == Len(chain)

\* A block's content: no log, or one SingleEvent log with its two values.
BlockContents == {<<>>} \cup (Vals \X Vals)

\* The filters a watcher is created with: each value null or given.
FilterArgs == {NIL, 1} \X {NIL, 1}

TimerIds == 1..MaxTimers
PollIds == 1..MaxInflight

FreePoll == [pc |-> "free", currentBlock |-> NIL, fromBlock |-> NIL, toBlock |-> NIL]

\* setTimeout(() => this._poll(), this.pollRate): arms a timer with a fresh
\* identity and stores it in this._timer.
FreshTimer == CHOOSE t \in TimerIds : t \notin pendingTimers /\ t # timer
CanSetTimeout == \E t \in TimerIds : t \notin pendingTimers /\ t # timer
SetTimeout ==
    /\ timer' = FreshTimer
    /\ pendingTimers' = pendingTimers \cup {FreshTimer}

\* The state after watchEvents() has constructed the watcher: the constructor
\* has run _init up to its first await.
InitWatch ==
    /\ chain \in UNION {[1..n -> BlockContents] : n \in 0..1}
    /\ args \in FilterArgs
    /\ stop = FALSE
    /\ inst = "inst"
    /\ timer = NIL
    /\ lastBlock = NIL
    /\ filter = <<>>
    /\ initPc = "resolveCallArgs"
    /\ polls = [p \in PollIds |-> FreePoll]
    /\ pendingTimers = {}
    /\ fetched = <<>>
    /\ emitted = <<>>
    /\ errors = 0
    /\ watchHeight = Len(chain)
    /\ initBlock = NIL

\* A block is mined, with or without a SingleEvent log.
Mine ==
    /\ Height < MaxBlock
    /\ \E c \in BlockContents : chain' = Append(chain, c)
    /\ UNCHANGED <<args, stop, inst, timer, lastBlock, filter, initPc, polls,
                   pendingTimers, fetched, emitted, errors, watchHeight, initBlock, watchHistory, nonWatchVars>>

\* _init: resolveCallArgs resolved; the filter is built and getBlockNumber
\* is requested.
InitArgsResolved ==
    /\ initPc = "resolveCallArgs"
    /\ filter' = encodeLogTopicsFilter(WatchDef, resolveCallArgs(WatchDef, args))
    /\ initPc' = "getBlockNumber"
    /\ UNCHANGED <<chain, args, stop, inst, timer, lastBlock, polls, pendingTimers,
                   fetched, emitted, errors, watchHeight, initBlock, watchHistory, nonWatchVars>>

\* this.emit('error', err), as the number of 'error' events emitted.
emitErrorSwallowed(n) == n
emitError(n) == n + 1

\* _init: resolveCallArgs, the topic encoding or getBlockNumber failed; the
\* catch block emits 'error'.
InitFailed ==
    /\ initPc \in {"resolveCallArgs", "getBlockNumber"}
    /\ initPc' = "failed"
    /\ errors' = emitError(errors)
    /\ UNCHANGED <<chain, args, stop, inst, timer, lastBlock, filter, polls,
                   pendingTimers, fetched, emitted, watchHeight, initBlock, watchHistory, nonWatchVars>>

\* _init: getBlockNumber resolved with n, a height the node has had.
InitGotBlockNumber ==
    /\ initPc = "getBlockNumber"
    /\ \E n \in 0..Height :
        /\ lastBlock' = n
        /\ initBlock' = n
    /\ initPc' = "done"
    /\ IF ~stop THEN SetTimeout ELSE UNCHANGED <<timer, pendingTimers>>
    /\ UNCHANGED <<chain, args, stop, inst, filter, polls, fetched, emitted,
                   errors, watchHeight, watchHistory, nonWatchVars>>

\* The range of one poll's getPastLogs request (_poll, the filter literal).
PollFilterOverlapping(last, current) == [fromBlock |-> last, toBlock |-> current]
PollFilter(last, current) == [fromBlock |-> last + 1, toBlock |-> current]

\* The `finally` block of _poll: the next timer is armed whatever happened.
PollFinallyUnarmed(p) ==
    /\ polls' = [polls EXCEPT ![p] = FreePoll]
    /\ UNCHANGED <<timer, pendingTimers>>
PollFinally(p) ==
    /\ CanSetTimeout
    /\ SetTimeout
    /\ polls' = [polls EXCEPT ![p] = FreePoll]

\* setTimeout arms a timer that fires once.
TimersAfterFireAgain(pending, t) == pending
TimersAfterFire(pending, t) == pending \ {t}

\* A timer fires and calls _poll, which runs up to its first await: it
\* returns at once when stopped or uninitialised, and otherwise requests
\* the block number.
TimerFire ==
    \E t \in pendingTimers :
        /\ pendingTimers' = TimersAfterFire(pendingTimers, t)
        /\ IF stop \/ lastBlock = NIL
           THEN UNCHANGED polls
           ELSE \E p \in PollIds :
                    /\ polls[p].pc = "free"
                    /\ \A q \in PollIds : q < p => polls[q].pc # "free"
                    /\ polls' = [polls EXCEPT ![p].pc = "getBlockNumber"]
        /\ UNCHANGED <<chain, args, stop, inst, timer, lastBlock, filter, initPc,
                       fetched, emitted, errors, watchHeight, initBlock, watchHistory, nonWatchVars>>

\* _poll: if (currentBlock > this._lastBlock)
HeightDiffers(current, last) == current # last
HasAdvanced(current, last) == current > last

\* this._lastBlock while getPastLogs is awaited: the assignment comes after
\* the await.
WhileFetchingAdvanced(last, current) == current
WhileFetching(last, current) == last

\* _poll: getBlockNumber resolved with n. A higher block than the last one
\* seen makes the poll request the logs of the new range; otherwise the
\* poll ends in its finally block.
PollGotBlockNumber ==
    \E p \in PollIds, n \in 0..Height :
        /\ polls[p].pc = "getBlockNumber"
        /\ IF HasAdvanced(n, lastBlock)
           THEN /\ polls' = [polls EXCEPT ![p] =
                       [pc |-> "getPastLogs", currentBlock |-> n,
                        fromBlock |-> PollFilter(lastBlock, n).fromBlock,
                        toBlock |-> PollFilter(lastBlock, n).toBlock]]
                /\ lastBlock' = WhileFetching(lastBlock, n)
                /\ UNCHANGED <<timer, pendingTimers>>
           ELSE PollFinally(p) /\ UNCHANGED lastBlock
        /\ UNCHANGED <<chain, args, stop, inst, filter, initPc,
                       fetched, emitted, errors, watchHeight, initBlock, watchHistory, nonWatchVars>>

\* _poll: getBlockNumber or getPastLogs rejected. The catch block rethrows
\* and the finally block arms the next timer; nothing is emitted.
PollRpcFailed ==
    \E p \in PollIds :
        /\ polls[p].pc \in {"getBlockNumber", "getPastLogs"}
        /\ PollFinally(p)
        /\ pollFailures' = (IF pollFailures = NIL THEN NIL ELSE 1)
        /\ failedFrom' = (IF failedFrom = NIL THEN NIL
                          ELSE IF polls[p].pc = "getPastLogs" THEN polls[p].fromBlock
                          ELSE failedFrom)
        /\ UNCHANGED <<chain, args, stop, inst, lastBlock, filter, initPc,
                       fetched, emitted, errors, watchHeight, initBlock, closeCalls, nonWatchVars>>

\* _poll: getPastLogs resolved. _lastBlock advances, the logs are decoded,
\* filtered and emitted as 'data', and the finally block arms the next timer.
PollGotLogs ==
    \E p \in PollIds :
        /\ polls[p].pc = "getPastLogs"
        /\ LET raw == LogsInRange(chain, filter, polls[p].fromBlock, polls[p].toBlock)
           IN  emitted' = emitted \o DecodeAndFilter(raw, args)
        /\ lastBlock' = polls[p].currentBlock
        /\ fetched' = Append(fetched, [fromBlock |-> polls[p].fromBlock,
                                       toBlock |-> polls[p].toBlock])
        /\ PollFinally(p)
        /\ failedFrom' = (IF failedFrom = NIL THEN NIL ELSE 0)
        /\ UNCHANGED <<chain, args, stop, inst, filter, initPc, errors,
                       watchHeight, initBlock, pollFailures, closeCalls, nonWatchVars>>

\* The fields close() touches, as a record.
WatcherFields ==
    [stop |-> stop, inst |-> inst, timer |-> timer, pendingTimers |-> pendingTimers,
     threw |-> FALSE]

\* close() (alias stop()), as a function of those fields: the timer held is
\* cleared; nothing is raised.
closeStrict(w) ==
    [stop |-> TRUE, inst |-> "null", timer |-> NIL,
     pendingTimers |-> (IF w.timer # NIL THEN w.pendingTimers \ {w.timer}
                        ELSE w.pendingTimers),
     threw |-> (w.inst = "null")]
close(w) ==
    [stop |-> TRUE, inst |-> "null", timer |-> NIL,
     pendingTimers |-> (IF w.timer # NIL THEN w.pendingTimers \ {w.timer}
                        ELSE w.pendingTimers),
     threw |-> FALSE]

\* The consumer calls close().
Close ==
    /\ closeCalls < MaxCloseCalls
    /\ LET w == close(WatcherFields) IN
        /\ stop' = w.stop
        /\ inst' = w.inst
        /\ timer' = w.timer
        /\ pendingTimers' = w.pendingTimers
    /\ closeCalls' = (IF closeCalls = NIL THEN NIL ELSE closeCalls + 1)
    /\ UNCHANGED <<chain, args, lastBlock, filter, initPc, polls, fetched,
                   emitted, errors, watchHeight, initBlock, pollFailures, failedFrom, nonWatchVars>>

NextWatch ==
    \/ Mine
    \/ InitArgsResolved
    \/ InitFailed
    \/ InitGotBlockNumber
    \/ TimerFire
    \/ PollGotBlockNumber
    \/ PollRpcFailed
    \/ PollGotLogs
    \/ Close

\* ------------------------------------------------------------------------
\* Claims about the watcher (checked under SpecWatch).
\* ------------------------------------------------------------------------

\* The blocks whose log the watcher's filter values match.
Matches(b) == chain[b] # <<>> /\ testEventArgs([args |-> chain[b]], args)

\* How often block b occurs in a sequence of blocks.
Count(s, b) == Cardinality({i \in 1..Len(s) : s[i] = b})

\* C1: every getPastLogs request in flight covers exactly
\* [lastBlock + 1, current]; the ranges of the successful fetches are
\* non-empty, the first begins right after the height read at
\* initialisation, each next one begins right after the previous one ends,
\* and the last one ends at lastBlock: no block is fetched twice, none is
\* skipped.
C1_RangesContiguous ==
    /\ \A p \in PollIds : polls[p].pc = "getPastLogs" =>
        /\ polls[p].fromBlock = lastBlock + 1
        /\ polls[p].toBlock = polls[p].currentBlock
        /\ polls[p].fromBlock <= polls[p].toBlock
    /\ \A i \in 1..Len(fetched) :
        /\ fetched[i].fromBlock =
              (IF i = 1 THEN initBlock ELSE fetched[i - 1].toBlock) + 1
        /\ fetched[i].fromBlock <= fetched[i].toBlock
    /\ fetched # <<>> => lastBlock = fetched[Len(fetched)].toBlock

\* Two successive successful fetches, the first of more than one block.
C1_Witness ==
    /\ Len(fetched) >= 2
    /\ fetched[1].toBlock > fetched[1].fromBlock

\* C2 (safety part): while the watcher is open, a matching log mined after
\* watch() was called is never emitted twice, and once the watcher has moved
\* past its block it has been emitted; nothing else is emitted.
C2_ExactlyOnce ==
    ~stop =>
        \A b \in 1..Height :
            /\ Count(emitted, b) <= 1
            /\ Count(emitted, b) = 1 => Matches(b)
            /\ (b > watchHeight /\ Matches(b) /\ lastBlock # NIL /\ b <= lastBlock)
                  => Count(emitted, b) = 1

\* C3: once close() has returned, no further 'data' event is emitted.
C3_NoDataAfterClose == [][stop => emitted' = emitted]_vars

\* ------------------------------------------------------------------------
\* Claims about the watcher's life (checked under SpecWatchLife, C15 under
\* SpecWatch).
\* ------------------------------------------------------------------------

\* C14: when a poll of an open watcher ends without having fetched logs,
\* as it does when getBlockNumber or getPastLogs fails, the next timer is
\* armed and held, and neither 'data' nor 'error' is emitted.
C14_FailedPollRearms ==
    [][(/\ ~stop
        /\ lastBlock' = lastBlock
        /\ \E p \in PollIds :
            polls[p].pc \in {"getBlockNumber", "getPastLogs"} /\ polls'[p].pc = "free")
       => (/\ timer' # NIL
           /\ timer' \in pendingTimers'
           /\ emitted' = emitted
           /\ errors' = errors)]_vars

\* A poll of the open watcher has failed, and a timer is armed.
C14_Witness ==
    /\ pollFailures = 1
    /\ ~stop
    /\ timer \in pendingTimers
    /\ errors = 0

\* C15: once close() has been called, no new poll timer is armed.
C15_NoTimerAfterClose == [][stop => pendingTimers' \subseteq pendingTimers]_vars

\* C16: in every state of the watcher, close() raises nothing, and a second
\* close() raises nothing and leaves the fields as the first left them:
\* stopped, no timer held.
C16_CloseIdempotent ==
    LET once == close(WatcherFields)
        twice == close(once)
    IN  /\ ~once.threw
        /\ ~twice.threw
        /\ twice = once
        /\ once.stop /\ once.timer = NIL

\* close() has been called twice while a poll was in flight.
C16_Witness ==
    /\ closeCalls = 2
    /\ \E p \in PollIds : polls[p].pc # "free"

\* C17: when the initialisation has failed, 'error' has been emitted once,
\* no timer is armed or held, no poll runs and no 'data' is emitted.
C17_InitFailureEmitsError ==
    initPc = "failed" =>
        /\ errors = 1
        /\ timer = NIL
        /\ pendingTimers = {}
        /\ \A p \in PollIds : polls[p].pc = "free"
        /\ fetched = <<>>
        /\ emitted = <<>>

\* The initialisation of an open watcher failed, and an event was raised
\* afterwards.
C17_Witness ==
    /\ initPc = "failed"
    /\ ~stop
    /\ Height > watchHeight
    /\ chain[Height] # <<>>

\* ------------------------------------------------------------------------
\* A binding and one transaction: FlexContract.new, the address setter and
\* wrapSendTxPromise of src/src/index.js.
\* ------------------------------------------------------------------------

\* Addresses: an account id in a letter case. ethjs.isValidAddress holds of
\* either case; only the checksummed form is canonical.
AddrIds == {1, 2}
Addrs == [id : AddrIds, form : {"lower", "checksum"}]
NoAddress == [id |-> 0, form |-> "none"]

\* ethjs.toChecksumAddress
toChecksumAddress(a) == [a EXCEPT !.form = "checksum"]

\* The maximum confirmation count of wrapSendTxPromise.
MAX_CONFIRMATIONS == 12

\* The numbers a 'confirmation' event may carry, and the counts confirmed()
\* is called with (0 stands for an omitted count).
ConfNums == (0..MaxConf) \cup {MAX_CONFIRMATIONS, MAX_CONFIRMATIONS + 1}

\* A promise: settled at most once.
Pending == [state |-> "pending", value |-> <<>>, reason |-> ""]
accept(p, v) ==
    IF p.state = "pending" THEN [state |-> "resolved", value |-> <<v>>, reason |-> ""]
    ELSE p
reject(p, e) ==
    IF p.state = "pending" THEN [state |-> "rejected", value |-> <<>>, reason |-> e]
    ELSE p

\* augmentReceipt(inst, address, receipt): the receipt with events, findEvent
\* and findEvents added.
augmentReceipt(r) == [r EXCEPT !.augmented = TRUE]

\* The record of the order of the 'confirmation' events: none yet, out of
\* order, or the last number while they began at 0 or 1 and each carried
\* the number before plus one.
NoEventYet == -3
OutOfOrder == -2
NextConfOrder(o, n) ==
    IF o = NIL THEN NIL
    ELSE IF o = NoEventYet THEN (IF n \in {0, 1} THEN n ELSE OutOfOrder)
    ELSE IF o # OutOfOrder /\ n = o + 1 THEN n
    ELSE OutOfOrder

\* The confirmation handler's count: confirmations = Math.max(confirmations, n).
ConfirmationCountLast(c, n) == n
ConfirmationCount(c, n) == IF n > c THEN n ELSE c

\* The 'receipt' listener of the wrapper promise: a receipt without success
\* status rejects, any other resolves with the augmented receipt.
ReceiptOutcomeIgnoringStatus(w, r) == accept(w, augmentReceipt(r))
ReceiptOutcome(w, r) ==
    IF ~r.status THEN reject(w, "Transaction failed.")
    ELSE accept(w, augmentReceipt(r))

\* new(): the address a successful deployment assigns.
DeployedAddressRaw(r) == r.contractAddress
DeployedAddress(r) == toChecksumAddress(r.contractAddress)

\* The state right after new(...) or a transaction function has returned its
\* wrapped promise: sendTx() is still building the call.
InitTx ==
    /\ isDeploy \in BOOLEAN
    /\ txReceipt \in [status : BOOLEAN,
                      contractAddress : IF isDeploy THEN Addrs ELSE {NoAddress},
                      augmented : {FALSE}]
    /\ address \in (IF isDeploy THEN {NoAddress} ELSE {toChecksumAddress(a) : a \in Addrs})
    /\ initAddress = address
    /\ ABI_CACHE = (IF isDeploy THEN {} ELSE {address})
    /\ promise = "pending"
    /\ listening = FALSE
    /\ receipt = <<>>
    /\ confirmations = 0
    /\ wrapper = Pending
    /\ txId = Pending
    /\ confirmedCalls = <<>>
    /\ chainPc = "awaitTxId"
    /\ hashEmitted = FALSE
    /\ receiptEmitted = "no"
    /\ errorEmitted = FALSE
    /\ confEvents = 0
    /\ lastConfirmation = 0
    /\ assignments = 0

\* A state without any transaction, for the specifications of other parts.
TxIdle ==
    /\ isDeploy = FALSE
    /\ txReceipt = [status |-> FALSE, contractAddress |-> NoAddress, augmented |-> FALSE]
    /\ address = NoAddress
    /\ initAddress = NoAddress
    /\ ABI_CACHE = {}
    /\ promise = "rejected"
    /\ listening = FALSE
    /\ receipt = <<>>
    /\ confirmations = 0
    /\ wrapper = Pending
    /\ txId = Pending
    /\ confirmedCalls = <<>>
    /\ chainPc = "awaitTxId"
    /\ hashEmitted = FALSE
    /\ receiptEmitted = "no"
    /\ errorEmitted = FALSE
    /\ confEvents = 0
    /\ lastConfirmation = 0
    /\ assignments = 0
    /\ confOrder = NIL

\* sendTx() resolved with {sent, address}: every then-callback registered on
\* the promise attaches its listeners to `sent`.
SendTxResolved ==
    /\ promise = "pending"
    /\ promise' = "resolved"
    /\ listening' = TRUE
    /\ confirmedCalls' = [i \in 1..Len(confirmedCalls) |->
            [confirmedCalls[i] EXCEPT !.attached = (confirmedCalls[i].p.state = "pending")]]
    /\ UNCHANGED <<isDeploy, address, ABI_CACHE, receipt, confirmations, wrapper, txId,
                   chainPc, txReceipt, hashEmitted, receiptEmitted, errorEmitted,
                   confEvents, lastConfirmation, confOrder, assignments, initAddress, nonTxVars>>

\* sendTx() rejected (the call could not be built or sent): promise.catch
\* rejects every facet.
SendTxRejected ==
    /\ promise = "pending"
    /\ promise' = "rejected"
    /\ wrapper' = reject(wrapper, "send failed")
    /\ txId' = reject(txId, "send failed")
    /\ confirmedCalls' = [i \in 1..Len(confirmedCalls) |->
            [confirmedCalls[i] EXCEPT !.p = reject(@, "send failed")]]
    /\ UNCHANGED <<isDeploy, address, ABI_CACHE, listening, receipt, confirmations,
                   chainPc, txReceipt, hashEmitted, receiptEmitted, errorEmitted,
                   confEvents, lastConfirmation, confOrder, assignments, initAddress, nonTxVars>>

\* `sent` emits 'transactionHash'.
EvTransactionHash ==
    /\ promise = "resolved"
    /\ ~hashEmitted /\ ~errorEmitted
    /\ hashEmitted' = TRUE
    /\ txId' = IF listening THEN accept(txId, "hash") ELSE txId
    /\ UNCHANGED <<isDeploy, address, ABI_CACHE, promise, listening, receipt,
                   confirmations, wrapper, confirmedCalls, chainPc, txReceipt,
                   receiptEmitted, errorEmitted, confEvents, lastConfirmation, confOrder,
                   assignments, initAddress, nonTxVars>>

\* `sent` emits 'receipt'. The wrapper settles; for a deployment the
\* callback new() registered on r.receipt then sets the address and caches
\* the ABI (it is the first reaction of the wrapper promise, and runs before
\* any further event of `sent`).
EvReceipt ==
    /\ promise = "resolved"
    /\ hashEmitted /\ receiptEmitted = "no" /\ ~errorEmitted
    /\ receiptEmitted' = IF listening THEN "heard" ELSE "unheard"
    /\ wrapper' = IF listening THEN ReceiptOutcome(wrapper, txReceipt) ELSE wrapper
    /\ IF isDeploy /\ wrapper.state = "pending" /\ wrapper'.state = "resolved"
       THEN /\ address' = DeployedAddress(wrapper'.value[1])
            /\ ABI_CACHE' = ABI_CACHE \cup {address'}
            /\ assignments' = assignments + 1
       ELSE UNCHANGED <<address, ABI_CACHE, assignments>>
    /\ UNCHANGED <<isDeploy, promise, listening, receipt, confirmations, txId,
                   confirmedCalls, chainPc, txReceipt, hashEmitted, errorEmitted,
                   confEvents, lastConfirmation, confOrder, initAddress, nonTxVars>>

\* The listener of a pending confirmed(count) promise: if (_count == count).
ListenerFiresUpTo(n, count) == n <= count
ListenerFires(n, count) == n = count

\* `sent` emits 'confirmation' with number n: the counting handler runs
\* first, then the listener of every pending confirmed(count) promise.
EvConfirmation ==
    \E n \in ConfNums :
        /\ promise = "resolved"
        /\ hashEmitted /\ ~errorEmitted
        /\ confEvents < MaxConfEvents
        /\ confEvents' = confEvents + 1
        /\ confOrder' = NextConfOrder(confOrder, n)
        /\ IF listening
           THEN /\ receipt' = <<txReceipt>>
                /\ confirmations' = ConfirmationCount(confirmations, n)
                /\ lastConfirmation' = n
                /\ listening' = (n < MAX_CONFIRMATIONS)
           ELSE UNCHANGED <<receipt, confirmations, lastConfirmation, listening>>
        /\ confirmedCalls' = [i \in 1..Len(confirmedCalls) |->
              LET c == confirmedCalls[i]
              IN  [c EXCEPT
                     !.p = IF c.attached /\ ListenerFires(n, c.count)
                           THEN accept(c.p, txReceipt)
                           ELSE c.p,
                     !.attached = c.attached /\ ~(listening /\ n >= MAX_CONFIRMATIONS)]]
        /\ UNCHANGED <<isDeploy, address, ABI_CACHE, promise, wrapper, txId, chainPc,
                       txReceipt, hashEmitted, receiptEmitted, errorEmitted,
                       assignments, initAddress, nonTxVars>>

\* `sent` emits 'error': every listening facet rejects.
EvError ==
    /\ promise = "resolved"
    /\ receiptEmitted = "no" /\ ~errorEmitted
    /\ errorEmitted' = TRUE
    /\ wrapper' = IF listening THEN reject(wrapper, "error") ELSE wrapper
    /\ txId' = IF listening THEN reject(txId, "error") ELSE txId
    /\ confirmedCalls' = [i \in 1..Len(confirmedCalls) |->
            [confirmedCalls[i] EXCEPT
                !.p = IF confirmedCalls[i].attached THEN reject(@, "error") ELSE @]]
    /\ UNCHANGED <<isDeploy, address, ABI_CACHE, promise, listening, receipt,
                   confirmations, chainPc, txReceipt, hashEmitted, receiptEmitted,
                   confEvents, lastConfirmation, confOrder, assignments, initAddress, nonTxVars>>

\* confirmed(): the test for too high a count, and the test whether the
\* count has been seen already.
TooManyMessage == "Maximum confirmations is 12."
TooManyInclusive(count) == count >= MAX_CONFIRMATIONS
TooMany(count) == count > MAX_CONFIRMATIONS
AlreadySeenMore(seen, count) == seen > count
AlreadySeen(seen, count) == seen >= count

\* The consumer calls confirmed(count); given = 0 is the omitted count, which
\* means 1. Too high a count throws; a count seen already gives a promise
\* resolved with the `receipt` cell; otherwise a listener is attached once
\* `promise` has resolved.
CallConfirmed ==
    \E given \in ConfNums :
        LET count == IF given = 0 THEN 1 ELSE given
        IN  /\ Len(confirmedCalls) <
                  (IF confOrder = NIL THEN MaxConfirmedCalls ELSE MaxOrderedCalls)
            /\ confirmedCalls' = Append(confirmedCalls,
                  IF TooMany(count)
                  THEN [given |-> given, count |-> count, attached |-> FALSE,
                        p |-> reject(Pending, TooManyMessage)]
                  ELSE IF AlreadySeen(confirmations, count)
                  THEN [given |-> given, count |-> count, attached |-> FALSE,
                        p |-> accept(Pending, receipt[1])]
                  ELSE [given |-> given, count |-> count,
                        attached |-> (promise = "resolved"),
                        p |-> IF promise = "rejected"
                              THEN reject(Pending, "send failed") ELSE Pending])
            /\ UNCHANGED <<isDeploy, address, ABI_CACHE, promise, listening, receipt,
                           confirmations, wrapper, txId, chainPc, txReceipt,
                           hashEmitted, receiptEmitted, errorEmitted, confEvents,
                           lastConfirmation, confOrder, assignments, initAddress, nonTxVars>>

\* The consumer's chain `await r.txId; await r.receipt` resumes.
ChainStep ==
    /\ \/ /\ chainPc = "awaitTxId"
          /\ txId.state # "pending"
          /\ chainPc' = IF txId.state = "resolved" THEN "awaitReceipt" ELSE "rejected"
       \/ /\ chainPc = "awaitReceipt"
          /\ wrapper.state # "pending"
          /\ chainPc' = wrapper.state
    /\ UNCHANGED <<isDeploy, address, ABI_CACHE, promise, listening, receipt,
                   confirmations, wrapper, txId, confirmedCalls, txReceipt,
                   hashEmitted, receiptEmitted, errorEmitted, confEvents,
                   lastConfirmation, confOrder, assignments, initAddress, nonTxVars>>

NextTx ==
    \/ SendTxResolved
    \/ SendTxRejected
    \/ EvTransactionHash
    \/ EvReceipt
    \/ EvConfirmation
    \/ EvError
    \/ CallConfirmed
    \/ ChainStep

\* ------------------------------------------------------------------------
\* Claims about one transaction (checked under SpecTx).
\* ------------------------------------------------------------------------

\* C5: the confirmation count of a pending transaction never decreases,
\* whatever numbers the 'confirmation' events carry and in whatever order.
C5_CountNeverDecreases == [][confirmations' >= confirmations]_vars

\* A 'confirmation' with a lower number than one counted before was handled.
C5_Witness ==
    /\ confEvents >= 2
    /\ lastConfirmation < confirmations

\* C6: once the wrapper has heard a receipt without success status, the
\* send() promise (which is its .receipt facet) is rejected with the
\* transaction-failed error and is not resolved, and the consumer chain
\* that awaits .txId and then the receipt has got past .txId and does not
\* end resolved.
C6_FailedReceiptRejects ==
    (receiptEmitted = "heard" /\ ~txReceipt.status) =>
        /\ wrapper.state = "rejected"
        /\ wrapper.reason = "Transaction failed."
        /\ txId.state = "resolved"
        /\ chainPc \in {"awaitTxId", "awaitReceipt", "rejected"}

\* The chain has ended, in rejection, after a failed receipt.
C6_Witness ==
    /\ receiptEmitted = "heard"
    /\ ~txReceipt.status
    /\ chainPc = "rejected"

CallIds == 1..Len(confirmedCalls)
Resolved(i) == confirmedCalls[i].p.state = "resolved"

\* Call i asks for fewer confirmations than call k, is requested no later,
\* and k's count is within the maximum.
EarlierAndLower(i, k) ==
    /\ i < k
    /\ confirmedCalls[i].count < confirmedCalls[k].count
    /\ confirmedCalls[k].count <= MAX_CONFIRMATIONS

\* When the promise of confirmed(k) is resolved, the count has reached j
\* and the promise of a confirmed(j) requested no later is resolved.
InOrder ==
    \A i \in CallIds : \A k \in CallIds :
        (EarlierAndLower(i, k) /\ Resolved(k)) =>
            /\ confirmations >= confirmedCalls[i].count
            /\ Resolved(i)

C19_TooManyRejected ==
    \A i \in CallIds :
        LET c == confirmedCalls[i]
        IN  /\ (c.given = 0) => (c.count = 1)
            /\ (c.count > 12) => (c.p = reject(Pending, TooManyMessage))
            /\ (c.count \in 1..12) => (c.p.reason # TooManyMessage)

\* A call for 13 confirmations rejected with the usage error, next to a call
\* without a count resolved by the event 1 and so not rejected.
C19_Witness ==
    \E i \in CallIds : \E k \in CallIds :
        /\ confirmedCalls[i].given = 13
        /\ confirmedCalls[i].p.state = "rejected"
        /\ confirmedCalls[k].given = 0
        /\ confirmedCalls[k].attached
        /\ Resolved(k)

\* C20: a call of confirmed(count) made when at least `count` confirmations
\* have been seen returns a promise already resolved with the receipt of
\* the transaction; no listener waits for a further event.
C20_SeenResolvesAtOnce ==
    [][(Len(confirmedCalls') = Len(confirmedCalls) + 1) =>
          LET c == confirmedCalls'[Len(confirmedCalls')]
          IN  (c.count <= MAX_CONFIRMATIONS /\ confirmations >= c.count) =>
                  /\ c.p = accept(Pending, txReceipt)
                  /\ ~c.attached]_vars

\* After the single event 1 was counted, a call for 1 confirmation is
\* resolved without a listener.
C20_Witness ==
    /\ confEvents = 1 /\ confirmations = 1
    /\ Len(confirmedCalls) = 1
    /\ confirmedCalls[1].count = 1
    /\ ~confirmedCalls[1].attached
    /\ confirmedCalls[1].p = accept(Pending, txReceipt)

\* ------------------------------------------------------------------------
\* One send() of the current revision: sendBoundFunction, wrapSendTxPromise
\* and the send() that new() wraps, run by the promise job queue.
\* ------------------------------------------------------------------------

\* A promise job: continuation k, of confirmed() call i where it belongs to one.
Job(k, i) == [k |-> k, i |-> i]

\* The jobs queued when a promise with reactions rs settles.
ReactionJobs(rs) == [n \in 1..Len(rs) |-> Job(rs[n], 0)]

\* What the send() of a bound call has registered on the wrapper promise
\* before it returns it: the address setter, for the bound call of new().
NewSendReactionsUnwrapped(viaNew) == <<>>
NewSendReactions(viaNew) == IF viaNew THEN <<"setAddress">> ELSE <<>>

\* The receipt object flex-ether hands out: obj tells objects apart.
SendRawReceipt(obj) ==
    [obj |-> obj, contractAddress |-> mined.contractAddress, augmented |-> FALSE]

\* The state when send() has returned the wrapper: the bodies of `sent` and
\* of the wrapper have run up to their first await.
InitSend ==
    /\ sendViaNew \in BOOLEAN
    /\ mined \in [ok : BOOLEAN,
                  contractAddress : IF sendViaNew THEN Addrs ELSE {NoAddress}]
    /\ boundAddress = (IF sendViaNew THEN NoAddress
                       ELSE [id |-> 1, form |-> "checksum"])
    /\ sent = "pending"
    /\ sentWaiters = <<Job("wrapperAfterSent", 0), Job("txIdAfterSent", 0)>>
    /\ tx = "none"
    /\ sendReceipt = <<>>
    /\ receiptWrites = 0
    /\ sendWrapper = Pending
    /\ wrapperPc = "awaitSent"
    /\ reactions = NewSendReactions(sendViaNew)
    /\ microtasks = <<>>
    /\ sendConfirmed = <<>>
    /\ consumerPc = "idle"
    /\ consumerSaw = NoAddress
    /\ sendTxId = Pending
    /\ txIdPc = "awaitSent"
    /\ txHash = "none"

\* A state without any send, for the specifications of other parts.
SendIdle ==
    /\ sendViaNew = FALSE
    /\ mined = [ok |-> FALSE, contractAddress |-> NoAddress]
    /\ boundAddress = NoAddress
    /\ sent = "rejected"
    /\ sentWaiters = <<>>
    /\ tx = "none"
    /\ sendReceipt = <<>>
    /\ receiptWrites = 0
    /\ sendWrapper = Pending
    /\ wrapperPc = "done"
    /\ reactions = <<>>
    /\ microtasks = <<>>
    /\ sendConfirmed = <<>>
    /\ consumerPc = "idle"
    /\ consumerSaw = NoAddress
    /\ sendTxId = Pending
    /\ txIdPc = "done"
    /\ txHash = "none"

\* The facet wrapper.txId and flex-ether's promise behind it.
txIdFacet == <<sendTxId, txIdPc, txHash>>

\* The wrapper's async body settles its promise: the registered callbacks
\* are queued behind the jobs in `rest`, in registration order.
SettleWrapper(p, rest) ==
    /\ sendWrapper' = p
    /\ wrapperPc' = "done"
    /\ microtasks' = rest \o ReactionJobs(reactions)
    /\ reactions' = <<>>

\* sendBoundFunction's async body ends: with {tx, address, inst} after
\* inst._eth.send(), or by throwing. Its waiters are queued in order.
SentSettles ==
    /\ sent = "pending"
    /\ microtasks = <<>>
    /\ \E ok \in BOOLEAN :
        /\ sent' = (IF ok THEN "resolved" ELSE "rejected")
        /\ tx' = (IF ok THEN "pending" ELSE "none")
        /\ txHash' = (IF ok THEN "pending" ELSE "none")
    /\ microtasks' = sentWaiters
    /\ sentWaiters' = <<>>
    /\ UNCHANGED <<sendViaNew, mined, boundAddress, sendReceipt, receiptWrites,
                   sendWrapper, wrapperPc, reactions, sendConfirmed, consumerPc,
                   consumerSaw, sendTxId, txIdPc, nonSendVars>>

\* The wrapper's body resumes from `await sent` and suspends at `await tx`,
\* or ends in the rejection of `sent`.
WrapperAfterSent ==
    /\ microtasks # <<>>
    /\ Head(microtasks).k = "wrapperAfterSent"
    /\ IF sent = "resolved"
       THEN /\ wrapperPc' = "awaitTx"
            /\ microtasks' = Tail(microtasks) \o
                   (IF tx \in {"resolved", "rejected"}
                    THEN <<Job("wrapperAfterTx", 0)>> ELSE <<>>)
            /\ UNCHANGED <<sendWrapper, reactions>>
       ELSE SettleWrapper(reject(sendWrapper, "send failed"), Tail(microtasks))
    /\ UNCHANGED <<sendViaNew, mined, boundAddress, sent, sentWaiters, tx,
                   sendReceipt, receiptWrites, sendConfirmed, consumerPc,
                   consumerSaw, txIdFacet, nonSendVars>>

\* flex-ether's transaction promise settles with the receipt, or rejects.
TxSettles ==
    /\ tx = "pending"
    /\ txHash = "resolved"
    /\ microtasks = <<>>
    /\ tx' = (IF mined.ok THEN "resolved" ELSE "rejected")
    /\ microtasks' = (IF wrapperPc = "awaitTx"
                      THEN <<Job("wrapperAfterTx", 0)>> ELSE <<>>)
    /\ UNCHANGED <<sendViaNew, mined, boundAddress, sent, sentWaiters,
                   sendReceipt, receiptWrites, sendWrapper, wrapperPc, reactions,
                   sendConfirmed, consumerPc, consumerSaw, txIdFacet, nonSendVars>>

\* The wrapper's body resumes from `await tx`:
\* return receipt = augmentReceipt(inst, address, <the awaited receipt>).
WrapperAfterTx ==
    /\ microtasks # <<>>
    /\ Head(microtasks).k = "wrapperAfterTx"
    /\ IF tx = "resolved"
       THEN LET r == augmentReceipt(SendRawReceipt(1)) IN
            /\ sendReceipt' = <<r>>
            /\ receiptWrites' = receiptWrites + 1
            /\ SettleWrapper(accept(sendWrapper, r), Tail(microtasks))
       ELSE /\ SettleWrapper(reject(sendWrapper, "Transaction failed."),
                             Tail(microtasks))
            /\ UNCHANGED <<sendReceipt, receiptWrites>>
    /\ UNCHANGED <<sendViaNew, mined, boundAddress, sent, sentWaiters, tx,
                   sendConfirmed, consumerPc, consumerSaw, txIdFacet, nonSendVars>>

\* An awaited rejection leaves an async function by rejecting its promise.
swallow(p, e) == p
rethrow(p, e) == reject(p, e)

\* The body of wrapper.txId resumes from `await sent` and suspends at
\* `await tx.txId`, or ends in the rejection of `sent`.
TxIdAfterSent ==
    /\ microtasks # <<>>
    /\ Head(microtasks).k = "txIdAfterSent"
    /\ IF sent = "resolved"
       THEN /\ txIdPc' = "awaitHash"
            /\ microtasks' = Tail(microtasks) \o
                   (IF txHash \in {"resolved", "rejected"}
                    THEN <<Job("txIdAfterHash", 0)>> ELSE <<>>)
            /\ UNCHANGED sendTxId
       ELSE /\ txIdPc' = "done"
            /\ sendTxId' = rethrow(sendTxId, "send failed")
            /\ microtasks' = Tail(microtasks)
    /\ UNCHANGED <<sendViaNew, mined, boundAddress, sent, sentWaiters, tx,
                   sendReceipt, receiptWrites, sendWrapper, wrapperPc, reactions,
                   sendConfirmed, consumerPc, consumerSaw, txHash, nonSendVars>>

\* The continuations waiting on the settled promises of flex-ether.
HashWaiters == IF txIdPc = "awaitHash" THEN <<Job("txIdAfterHash", 0)>> ELSE <<>>
TxWaiters == IF wrapperPc = "awaitTx" THEN <<Job("wrapperAfterTx", 0)>> ELSE <<>>

\* The node accepted the transaction: flex-ether resolves tx.txId.
HashKnown ==
    /\ txHash = "pending"
    /\ microtasks = <<>>
    /\ txHash' = "resolved"
    /\ microtasks' = HashWaiters
    /\ UNCHANGED <<sendViaNew, mined, boundAddress, sent, sentWaiters, tx,
                   sendReceipt, receiptWrites, sendWrapper, wrapperPc, reactions,
                   sendConfirmed, consumerPc, consumerSaw, sendTxId, txIdPc,
                   nonSendVars>>

\* The node rejected the submission: flex-ether rejects both the
\* transaction promise and tx.txId.
SubmitFails ==
    /\ tx = "pending" /\ txHash = "pending"
    /\ ~mined.ok
    /\ microtasks = <<>>
    /\ tx' = "rejected"
    /\ txHash' = "rejected"
    /\ microtasks' = TxWaiters \o HashWaiters
    /\ UNCHANGED <<sendViaNew, mined, boundAddress, sent, sentWaiters,
                   sendReceipt, receiptWrites, sendWrapper, wrapperPc, reactions,
                   sendConfirmed, consumerPc, consumerSaw, sendTxId, txIdPc,
                   nonSendVars>>

\* The body of wrapper.txId resumes from `await tx.txId`.
TxIdAfterHash ==
    /\ microtasks # <<>>
    /\ Head(microtasks).k = "txIdAfterHash"
    /\ txIdPc' = "done"
    /\ sendTxId' = (IF txHash = "resolved" THEN accept(sendTxId, "hash")
                    ELSE rethrow(sendTxId, "submission failed"))
    /\ microtasks' = Tail(microtasks)
    /\ UNCHANGED <<sendViaNew, mined, boundAddress, sent, sentWaiters, tx,
                   sendReceipt, receiptWrites, sendWrapper, wrapperPc, reactions,
                   sendConfirmed, consumerPc, consumerSaw, txHash, nonSendVars>>

\* The consumer calls confirmed(): its body runs up to `await sent`. (The
\* count is only handed on to flex-ether, which decides when to settle.)
CallSendConfirmed ==
    /\ Len(sendConfirmed) < MaxSendCalls
    /\ LET i == Len(sendConfirmed) + 1 IN
        /\ sendConfirmed' = Append(sendConfirmed,
               [pc |-> "awaitSent", r |-> "none", obj |-> 0, result |-> Pending])
        /\ IF sent = "pending"
           THEN /\ sentWaiters' = Append(sentWaiters, Job("confirmedAfterSent", i))
                /\ UNCHANGED microtasks
           ELSE /\ microtasks' = Append(microtasks, Job("confirmedAfterSent", i))
                /\ UNCHANGED sentWaiters
    /\ UNCHANGED <<sendViaNew, mined, boundAddress, sent, tx, sendReceipt,
                   receiptWrites, sendWrapper, wrapperPc, reactions, consumerPc,
                   consumerSaw, txIdFacet, nonSendVars>>

\* confirmed() resumes from `await sent` and suspends at
\* `await tx.confirmed(count)`, or ends in the rejection of `sent`.
ConfirmedAfterSent ==
    /\ microtasks # <<>>
    /\ Head(microtasks).k = "confirmedAfterSent"
    /\ LET i == Head(microtasks).i IN
        sendConfirmed' = [sendConfirmed EXCEPT ![i] =
            IF sent = "resolved"
            THEN [@ EXCEPT !.pc = "awaitConfirmed", !.r = "pending"]
            ELSE [@ EXCEPT !.pc = "done", !.result = reject(@, "send failed")]]
    /\ microtasks' = Tail(microtasks)
    /\ UNCHANGED <<sendViaNew, mined, boundAddress, sent, sentWaiters, tx,
                   sendReceipt, receiptWrites, sendWrapper, wrapperPc, reactions,
                   consumerPc, consumerSaw, txIdFacet, nonSendVars>>

\* flex-ether settles the promise of one tx.confirmed(count): with the
\* receipt object of the transaction promise or with another one.
TxConfirmedSettles ==
    /\ microtasks = <<>>
    /\ \E i \in 1..Len(sendConfirmed), o \in {1, 2} :
        /\ sendConfirmed[i].r = "pending"
        /\ sendConfirmed' = [sendConfirmed EXCEPT ![i] =
               IF mined.ok THEN [@ EXCEPT !.r = "resolved", !.obj = o]
               ELSE [@ EXCEPT !.r = "rejected"]]
        /\ microtasks' = <<Job("confirmedAfterTx", i)>>
    /\ UNCHANGED <<sendViaNew, mined, boundAddress, sent, sentWaiters, tx,
                   sendReceipt, receiptWrites, sendWrapper, wrapperPc, reactions,
                   consumerPc, consumerSaw, txIdFacet, nonSendVars>>

\* confirmed() resumes from `await tx.confirmed(count)`:
\* if (receipt) return receipt; return receipt = augmentReceipt(inst, address, r).
ConfirmedAfterTx ==
    /\ microtasks # <<>>
    /\ Head(microtasks).k = "confirmedAfterTx"
    /\ LET i == Head(microtasks).i
           c == sendConfirmed[i]
           r == augmentReceipt(SendRawReceipt(c.obj))
       IN  IF c.r = "rejected"
           THEN /\ sendConfirmed' = [sendConfirmed EXCEPT ![i] =
                       [@ EXCEPT !.pc = "done",
                                 !.result = reject(@, "Transaction failed.")]]
                /\ UNCHANGED <<sendReceipt, receiptWrites>>
           ELSE IF sendReceipt # <<>>
           THEN /\ sendConfirmed' = [sendConfirmed EXCEPT ![i] =
                       [@ EXCEPT !.pc = "done",
                                 !.result = accept(@, sendReceipt[1])]]
                /\ UNCHANGED <<sendReceipt, receiptWrites>>
           ELSE /\ sendReceipt' = <<r>>
                /\ receiptWrites' = receiptWrites + 1
                /\ sendConfirmed' = [sendConfirmed EXCEPT ![i] =
                       [@ EXCEPT !.pc = "done", !.result = accept(@, r)]]
    /\ microtasks' = Tail(microtasks)
    /\ UNCHANGED <<sendViaNew, mined, boundAddress, sent, sentWaiters, tx,
                   sendWrapper, wrapperPc, reactions, consumerPc, consumerSaw,
                   txIdFacet, nonSendVars>>

\* The callback new()'s send() registered with sendPromise.receipt.then():
\* it runs on fulfilment only.
SetAddress ==
    /\ microtasks # <<>>
    /\ Head(microtasks).k = "setAddress"
    /\ boundAddress' = (IF sendWrapper.state = "resolved"
                        THEN DeployedAddress(sendWrapper.value[1])
                        ELSE boundAddress)
    /\ microtasks' = Tail(microtasks)
    /\ UNCHANGED <<sendViaNew, mined, sent, sentWaiters, tx, sendReceipt,
                   receiptWrites, sendWrapper, wrapperPc, reactions, sendConfirmed,
                   consumerPc, consumerSaw, txIdFacet, nonSendVars>>

\* A consumer awaits the send() promise (or .receipt, the same promise): its
\* continuation is registered behind the callbacks already there, or queued
\* at once if the promise has settled.
ConsumerAwait ==
    /\ consumerPc = "idle"
    /\ consumerPc' = "awaiting"
    /\ IF sendWrapper.state = "pending"
       THEN /\ reactions' = Append(reactions, "consumer")
            /\ UNCHANGED microtasks
       ELSE /\ microtasks' = Append(microtasks, Job("consumer", 0))
            /\ UNCHANGED reactions
    /\ UNCHANGED <<sendViaNew, mined, boundAddress, sent, sentWaiters, tx,
                   sendReceipt, receiptWrites, sendWrapper, wrapperPc,
                   sendConfirmed, consumerSaw, txIdFacet, nonSendVars>>

\* The consumer's continuation runs and reads the binding's address.
ConsumerResumes ==
    /\ microtasks # <<>>
    /\ Head(microtasks).k = "consumer"
    /\ consumerPc' = (IF sendWrapper.state = "resolved" THEN "resumed" ELSE "threw")
    /\ consumerSaw' = boundAddress
    /\ microtasks' = Tail(microtasks)
    /\ UNCHANGED <<sendViaNew, mined, boundAddress, sent, sentWaiters, tx,
                   sendReceipt, receiptWrites, sendWrapper, wrapperPc, reactions,
                   sendConfirmed, txIdFacet, nonSendVars>>

NextSend ==
    \/ SentSettles
    \/ WrapperAfterSent
    \/ TxSettles
    \/ WrapperAfterTx
    \/ CallSendConfirmed
    \/ ConfirmedAfterSent
    \/ TxConfirmedSettles
    \/ ConfirmedAfterTx
    \/ SetAddress
    \/ ConsumerAwait
    \/ ConsumerResumes
    \/ TxIdAfterSent
    \/ HashKnown
    \/ SubmitFails
    \/ TxIdAfterHash

\* ------------------------------------------------------------------------
\* Claims about one send() of the current revision (checked under SpecSend).
\* ------------------------------------------------------------------------

\* C4: the `receipt` cell is assigned at most once (the augmented receipt is
\* built once), and the send() promise and every confirmed() promise that
\* resolved hold that same receipt, in whatever order the continuations of
\* the transaction promise and of the confirmation promises run.
C4_ReceiptBuiltOnce ==
    /\ receiptWrites <= 1
    /\ \A i \in 1..Len(sendConfirmed) :
        (sendConfirmed[i].result.state = "resolved" /\ sendWrapper.state = "resolved")
            => sendConfirmed[i].result.value = sendWrapper.value

\* C8: when a consumer awaiting the send() promise of a deployment resumes
\* with the receipt, the binding's address it reads is the checksummed
\* contractAddress of the deployment.
C8_AddressSetBeforeConsumer ==
    (sendViaNew /\ consumerPc = "resumed") =>
        /\ consumerSaw.form = "checksum"
        /\ consumerSaw.id = mined.contractAddress.id

\* A consumer of a deployment has resumed; the node reported the address in
\* lower case.
C8_Witness ==
    /\ sendViaNew
    /\ consumerPc = "resumed"
    /\ mined.contractAddress.form = "lower"

\* The address the binding had when send() was called.
AddressAtSend == IF sendViaNew THEN NoAddress ELSE [id |-> 1, form |-> "checksum"]

\* The submission failed: the body of sendBoundFunction threw, or the node
\* rejected the transaction it was handed.
SubmissionFailed == sent = "rejected" \/ txHash = "rejected"
BothFacetsRejected == sendWrapper.state = "rejected" /\ sendTxId.state = "rejected"

\* C21: when the submission of a transaction fails, neither the receipt
\* facet nor the txId facet of the send() resolves, both end up rejected,
\* and the binding keeps the address it had (checked under SpecSendLive).
C21_FailedSendRejectsBoth ==
    /\ [](SubmissionFailed =>
            /\ sendWrapper.state # "resolved"
            /\ sendTxId.state # "resolved"
            /\ boundAddress = AddressAtSend)
    /\ (SubmissionFailed ~> BothFacetsRejected)

\* The node rejected the submission of a deployment; both facets have
\* rejected and every queued job, the address setter among them, has run.
C21_Witness ==
    /\ sendViaNew
    /\ txHash = "rejected"
    /\ BothFacetsRejected
    /\ microtasks = <<>>

\* ------------------------------------------------------------------------
\* Overload resolution and argument arrangement of the current revision:
\* findDef, parseFunctionArgs and the generated method that calls them.
\* ------------------------------------------------------------------------

\* Input names, and what an object holds under a name: nothing, the value
\* undefined, or a number.
Names == {"a", "b", "c"}
ABSENT == -1
UNDEF == -2
FieldVals == {ABSENT, UNDEF, 1, 2}
NoFields == [n \in Names |-> ABSENT]

\* Argument values: numbers, plain objects, and an array as one object that
\* is not plain.
Scalar(v) == [kind |-> "scalar", num |-> v, fields |-> NoFields]
PlainObject(f) == [kind |-> "plain", num |-> 0, fields |-> f]
ArrayValue == [kind |-> "array", num |-> 0, fields |-> NoFields]
UndefinedValue == [kind |-> "undefined", num |-> 0, fields |-> NoFields]

\* _.isObject and _.isPlainObject
isObject(v) == v.kind \in {"plain", "array"}
isPlainObject(v) == v.kind = "plain"

\* obj[name] !== undefined, name in obj, and obj[name]
IsDefined(obj, name) == obj.fields[name] \notin {ABSENT, UNDEF}
HasKey(obj, name) == obj.fields[name] # ABSENT
FieldValue(obj, name) ==
    IF obj.fields[name] \in {ABSENT, UNDEF} THEN UndefinedValue
    ELSE Scalar(obj.fields[name])

\* ABI definitions: a type and the names of the inputs, in declared order.
InputLists == {<<>>, <<"a">>, <<"b">>, <<"a", "b">>, <<"b", "a">>, <<"a", "b", "c">>}
MaxInputs == 3
FunctionDefs == [type : {"function"}, inputs : InputLists]
ConstructorDefs == [type : {"constructor"}, inputs : InputLists]
Undefined == [type |-> "undefined", inputs |-> <<>>]
NoImplicitConstructor == [type |-> "undefined", inputs |-> <<>>]
ImplicitConstructor == [type |-> "constructor", inputs |-> <<>>]

\* defs.slice().sort(...): a stable sort, descending in the input count.
RECURSIVE SortFrom(_, _)
SortFrom(defs, n) ==
    LET here == SelectSeq(defs, LAMBDA d : Len(d.inputs) = n)
    IN  IF n = 0 THEN here ELSE here \o SortFrom(defs, n - 1)
sortedDefsUnsorted(defs) == defs
sortedDefs(defs) == SortFrom(defs, MaxInputs)

\* The comparison of the input count with the number of args.
SameCountOrMore(def, fargs) == Len(def.inputs) >= Len(fargs)
SameCount(def, fargs) == Len(def.inputs) = Len(fargs)

\* The body of findDef's loop: TRUE when def is not skipped. (All callers
\* pass filter.args as an array and no filter.name.)
DefAccepted(def, flt) ==
    /\ (flt.type # "" => def.type = flt.type)
    /\ LET fargs == flt.args IN
       IF Len(fargs) = 1
       THEN /\ Len(def.inputs) # 0
            /\ (Len(def.inputs) > 1 =>
                    IF isObject(fargs[1])
                    THEN \A i \in 1..Len(def.inputs) : IsDefined(fargs[1], def.inputs[i])
                    ELSE SameCount(def, fargs))
       ELSE SameCount(def, fargs)

findDef(defs, flt) ==
    LET s == sortedDefs(defs)
        hits == {i \in 1..Len(s) : DefAccepted(s[i], flt)}
    IN  IF hits # {}
        THEN s[CHOOSE i \in hits : \A j \in hits : i <= j]
        ELSE IF flt.type = "constructor" /\ Len(flt.args) = 0
        THEN ImplicitConstructor
        ELSE Undefined

\* parseFunctionArgs: the arranged args, or a throw.
Threw == [ok |-> FALSE, args |-> <<>>]
parseFunctionArgs(def, fargs) ==
    IF Len(def.inputs) > 1 /\ Len(fargs) = 1 /\ isPlainObject(fargs[1])
    THEN IF \A i \in 1..Len(def.inputs) : HasKey(fargs[1], def.inputs[i])
         THEN [ok |-> TRUE,
               args |-> [i \in 1..Len(def.inputs) |-> FieldValue(fargs[1], def.inputs[i])]]
         ELSE Threw
    ELSE IF Len(fargs) # Len(def.inputs) THEN Threw
    ELSE [ok |-> TRUE, args |-> fargs]

\* The calls made: no argument, every single argument, and longer ones.
Calls ==
    {<<>>}
    \cup {<<v>> : v \in {Scalar(1), Scalar(2), ArrayValue}}
    \cup {<<PlainObject(f)>> : f \in [Names -> FieldVals]}
    \cup {<<Scalar(1), Scalar(2)>>,
          <<Scalar(2), PlainObject([NoFields EXCEPT !["a"] = 1])>>,
          <<Scalar(2), Scalar(1), Scalar(1)>>,
          <<Scalar(1), Scalar(1), Scalar(1), Scalar(1)>>}

\* The lists of at most n different definitions out of S.
DefLists(S, n) ==
    UNION {{l \in [1..k -> S] : \A i, j \in 1..k : l[i] = l[j] => i = j} : k \in 0..n}

\* A generated method is called with the definitions of its name (at least
\* one), or new() with the whole ABI: functions and at most one constructor.
InitFind ==
    /\ \/ /\ findDefs \in DefLists(FunctionDefs, MaxOverloads) \ {<<>>}
          /\ findFilter \in [type : {""}, args : Calls]
       \/ /\ findDefs \in {l \o c : l \in DefLists(FunctionDefs, 1),
                                    c \in DefLists(ConstructorDefs, 1)}
          /\ findFilter \in [type : {"constructor"}, args : Calls]
    /\ findPc = "called"
    /\ foundDef = Undefined
    /\ parsedArgs = <<>>

\* A state without any call, for the specifications of other parts.
FindIdle ==
    /\ findDefs = <<>>
    /\ findFilter = [type |-> "", args |-> <<>>]
    /\ findPc = "noDef"
    /\ foundDef = Undefined
    /\ parsedArgs = <<>>

\* The generated method (and new()): findDef, a throw if it found nothing,
\* else createBoundFunctionCall, which arranges the args.
CallMethod ==
    /\ findPc = "called"
    /\ LET def == findDef(findDefs, findFilter)
           parsed == parseFunctionArgs(def, findFilter.args)
       IN  /\ foundDef' = def
           /\ IF def = Undefined
              THEN findPc' = "noDef" /\ parsedArgs' = <<>>
              ELSE IF ~parsed.ok
              THEN findPc' = "badArgs" /\ parsedArgs' = <<>>
              ELSE findPc' = "bound" /\ parsedArgs' = parsed.args
    /\ UNCHANGED <<findDefs, findFilter, nonFindVars>>

NextFind == CallMethod

\* ------------------------------------------------------------------------
\* Claims about overload resolution (checked under SpecFind).
\* ------------------------------------------------------------------------

InputNames(def) == {def.inputs[i] : i \in 1..Len(def.inputs)}
Keys(obj) == {n \in Names : HasKey(obj, n)}
Overloads == {findDefs[i] : i \in 1..Len(findDefs)}

\* A generated method has been called and the call has returned or thrown.
MethodCallDone == findFilter.type = "" /\ findPc # "called"

\* The overloads differ pairwise in their input counts.
DifferentCounts ==
    \A i, j \in 1..Len(findDefs) :
        Len(findDefs[i].inputs) = Len(findDefs[j].inputs) => i = j

\* The call's only argument is an object that holds a defined value under
\* every input name of an overload with two or more inputs.
NamesLongerOverload ==
    /\ Len(findFilter.args) = 1
    /\ isObject(findFilter.args[1])
    /\ \E d \in Overloads :
        /\ Len(d.inputs) > 1
        /\ \A n \in InputNames(d) : IsDefined(findFilter.args[1], n)

\* The call resolved to the overload with as many inputs as it has
\* arguments, or failed for want of one.
ResolvedByCount ==
    LET exact == {d \in Overloads : Len(d.inputs) = Len(findFilter.args)}
    IN  IF exact = {} THEN findPc = "noDef"
        ELSE findPc = "bound" /\ foundDef \in exact

\* C9 as stated: with overloads of pairwise different input counts, a call
\* with N arguments resolves to the overload with exactly N inputs, and
\* fails when there is none.
C9_ResolvesByCount ==
    (MethodCallDone /\ DifferentCounts) => ResolvedByCount

\* C9, amended: the same, unless the call's only argument is an object that
\* holds a defined value under every input name of an overload with two or
\* more inputs.
C9_ResolvesByCountUnlessNamed ==
    (MethodCallDone /\ DifferentCounts /\ ~NamesLongerOverload) => ResolvedByCount

\* An object with keys, passed as the only argument where longer overloads
\* exist, went to the one-input overload.
C9_Witness ==
    /\ MethodCallDone
    /\ DifferentCounts
    /\ Len(findDefs) = 3
    /\ Len(findFilter.args) = 1
    /\ isPlainObject(findFilter.args[1])
    /\ Keys(findFilter.args[1]) # {}
    /\ findPc = "bound"
    /\ Len(foundDef.inputs) = 1

\* The call's only argument is a name-to-value object: a plain object, a
\* defined value under every key.
NamedCall ==
    /\ Len(findFilter.args) = 1
    /\ isPlainObject(findFilter.args[1])
    /\ \A n \in Keys(findFilter.args[1]) : IsDefined(findFilter.args[1], n)

\* Every input of the definition found got the value under its own name.
ArrangedByName ==
    /\ Len(parsedArgs) = Len(foundDef.inputs)
    /\ \A i \in 1..Len(foundDef.inputs) :
        parsedArgs[i] = Scalar(findFilter.args[1].fields[foundDef.inputs[i]])

\* C10 as stated: a call with one name-to-value object whose keys are the
\* input names of an overload, of one input or more, resolves to an overload
\* with that input-name set, and every input gets the value under its name,
\* in declared order.
C10_ResolvesByName ==
    (MethodCallDone /\ NamedCall
        /\ \E d \in Overloads :
            Len(d.inputs) >= 1 /\ InputNames(d) = Keys(findFilter.args[1]))
    => /\ findPc = "bound"
       /\ InputNames(foundDef) = Keys(findFilter.args[1])
       /\ ArrangedByName

\* C10, amended: that holds when the keys are the input names of an
\* overload with two or more inputs. An overload with one input is not
\* matched by name: where no overload with two or more inputs has all its
\* input names among the keys, a one-input overload, if there is one, is
\* found whatever the keys, and its input gets the object itself.
C10_ResolvesByNameFromTwoInputs ==
    (MethodCallDone /\ NamedCall) =>
        /\ (\E d \in Overloads :
                Len(d.inputs) >= 2 /\ InputNames(d) = Keys(findFilter.args[1]))
           => /\ findPc = "bound"
              /\ Len(foundDef.inputs) >= 2
              /\ InputNames(foundDef) = Keys(findFilter.args[1])
              /\ ArrangedByName
        /\ ((\A d \in Overloads :
                Len(d.inputs) >= 2 => ~(InputNames(d) \subseteq Keys(findFilter.args[1])))
            /\ \E d \in Overloads : Len(d.inputs) = 1)
           => /\ findPc = "bound"
              /\ Len(foundDef.inputs) = 1
              /\ parsedArgs = findFilter.args

\* A named call went to f(b, a), not first in the ABI, with different
\* values under a and b.
C10_Witness ==
    /\ MethodCallDone
    /\ NamedCall
    /\ Len(findDefs) >= 2
    /\ findPc = "bound"
    /\ foundDef.inputs = <<"b", "a">>
    /\ findDefs[1] # foundDef
    /\ parsedArgs = <<Scalar(2), Scalar(1)>>

\* ------------------------------------------------------------------------
\* One bound event call of the current revision over any event definition:
\* getPastEvents, and the filter and the poll of an EventWatcher.
\* ------------------------------------------------------------------------

\* The event definitions: three inputs, each indexed or not.
EventInputNames == <<"a", "b", "c">>
EventDefs ==
    {[i \in 1..3 |-> [name |-> EventInputNames[i], indexed |-> f[i]]] :
        f \in [1..3 -> BOOLEAN]}

\* The filter values of a bound event call, one per input, null or given.
EventFilters == [1..3 -> {NIL, 1}]

\* The logs of the contract: per block none, or one event with three values.
EventBlocks == {<<>>} \cup [1..3 -> Vals]

RECURSIVE getPastLogs(_, _, _, _, _)
\* eth.getPastLogs({topics, fromBlock, toBlock}) for the logs c of events of
\* definition def, in block order.
getPastLogs(def, c, topics, from, to) ==
    IF from > to \/ from > Len(c) THEN <<>>
    ELSE LET raw == RawLog(def, c[from], from)
         IN  (IF c[from] # <<>> /\ TopicsMatch(topics, raw) THEN <<raw>> ELSE <<>>)
             \o getPastLogs(def, c, topics, from + 1, to)

RECURSIVE DecodeAndTest(_, _, _)
\* _.filter(_.map(raw, r => decodeLogItem(def, r)), log => testEventArgs(log, args))
DecodeAndTest(def, raw, a) ==
    IF raw = <<>> THEN <<>>
    ELSE LET log == decodeLogItem(def, Head(raw))
         IN  (IF testEventArgs(log, a) THEN <<log.blockNumber>> ELSE <<>>)
             \o DecodeAndTest(def, Tail(raw), a)

\* The state when the bound event call exists and since() has been called:
\* getPastEvents is suspended at resolveCallArgs.
InitEvent ==
    /\ eventDef \in EventDefs
    /\ eventArgs \in EventFilters
    /\ eventLogs \in UNION {[1..n -> EventBlocks] : n \in 0..MaxLogs}
    /\ eventPc = "since.resolveCallArgs"
    /\ sinceTopics = <<>>
    /\ sinceEvents = <<>>
    /\ watchTopics = <<>>
    /\ watchEvents = <<>>

\* A state without any event call, for the specifications of other parts.
EventIdle ==
    /\ eventDef = <<>>
    /\ eventArgs = <<>>
    /\ eventLogs = <<>>
    /\ eventPc = "closed"
    /\ sinceTopics = <<>>
    /\ sinceEvents = <<>>
    /\ watchTopics = <<>>
    /\ watchEvents = <<>>

\* getPastEvents: resolveCallArgs resolved; the filter is built and
\* getPastLogs requested.
SinceArgsResolved ==
    /\ eventPc = "since.resolveCallArgs"
    /\ sinceTopics' = encodeLogTopicsFilter(eventDef, resolveCallArgs(eventDef, eventArgs))
    /\ eventPc' = "since.getPastLogs"
    /\ UNCHANGED <<eventDef, eventArgs, eventLogs, sinceEvents, watchTopics,
                   watchEvents, nonEventVars>>

\* getPastEvents: getPastLogs resolved; the logs are decoded and tested and
\* since() resolves. The consumer then calls watch().
SinceGotLogs ==
    /\ eventPc = "since.getPastLogs"
    /\ sinceEvents' = DecodeAndTest(eventDef,
           getPastLogs(eventDef, eventLogs, sinceTopics, 1, Len(eventLogs)),
           eventArgs)
    /\ eventPc' = "watch.resolveCallArgs"
    /\ UNCHANGED <<eventDef, eventArgs, eventLogs, sinceTopics, watchTopics,
                   watchEvents, nonEventVars>>

\* getPastEvents: resolveCallArgs or getPastLogs rejected, and so does since().
SinceFailed ==
    /\ eventPc \in {"since.resolveCallArgs", "since.getPastLogs"}
    /\ eventPc' = "since.rejected"
    /\ UNCHANGED <<eventDef, eventArgs, eventLogs, sinceTopics, sinceEvents,
                   watchTopics, watchEvents, nonEventVars>>

\* EventWatcher._init: resolveCallArgs resolved and _filter is built.
WatchFilterBuilt ==
    /\ eventPc = "watch.resolveCallArgs"
    /\ watchTopics' = encodeLogTopicsFilter(eventDef, resolveCallArgs(eventDef, eventArgs))
    /\ eventPc' = "watch.getPastLogs"
    /\ UNCHANGED <<eventDef, eventArgs, eventLogs, sinceTopics, sinceEvents,
                   watchEvents, nonEventVars>>

\* What one poll of the watcher emits for the logs it got.
PollEmits(def, raw, a) == DecodeAndTest(def, raw, a)

\* EventWatcher._poll over the same blocks: getPastLogs resolved; the logs
\* are decoded, tested and emitted.
WatchPolled ==
    /\ eventPc = "watch.getPastLogs"
    /\ watchEvents' = PollEmits(eventDef,
           getPastLogs(eventDef, eventLogs, watchTopics, 1, Len(eventLogs)),
           eventArgs)
    /\ eventPc' = "done"
    /\ UNCHANGED <<eventDef, eventArgs, eventLogs, sinceTopics, sinceEvents,
                   watchTopics, nonEventVars>>

NextEvent ==
    \/ SinceArgsResolved
    \/ SinceGotLogs
    \/ SinceFailed
    \/ WatchFilterBuilt
    \/ WatchPolled

\* ------------------------------------------------------------------------
\* Claims about event filters (checked under SpecEvent).
\* ------------------------------------------------------------------------

\* The positions of the indexed inputs of a definition.
IndexedPositions(def) == {i \in 1..Len(def) : def[i].indexed}

\* The topics as stated: the signature, then for each indexed input, in
\* order, the encoding of the value given for that input, or null.
TopicsAsStated(def, topics, a) ==
    /\ Len(topics) = 1 + Cardinality(IndexedPositions(def))
    /\ topics[1] = <<"sig">>
    /\ \A i \in IndexedPositions(def) :
        topics[1 + IndexedBefore(def, i)] =
            (IF a[i] # NIL THEN encodeParameter(a[i]) ELSE <<>>)

\* C11: for every event definition and every filter, the topics built for
\* since() and for watch() are the signature followed by one entry per
\* indexed input: the encoding of the value given for that same input, or
\* null when none was given.
C11_TopicPerIndexedInput ==
    /\ sinceTopics # <<>> => TopicsAsStated(eventDef, sinceTopics, eventArgs)
    /\ watchTopics # <<>> => TopicsAsStated(eventDef, watchTopics, eventArgs)

\* The blocks whose event equals every filter value that is not null.
MatchingBlocks ==
    {b \in 1..Len(eventLogs) :
        /\ eventLogs[b] # <<>>
        /\ \A i \in 1..Len(eventArgs) :
            eventArgs[i] = NIL \/ eventLogs[b][i] = eventArgs[i]}
BlocksOf(s) == {s[i] : i \in 1..Len(s)}

\* since() has resolved.
SinceResolved == eventPc \in {"watch.resolveCallArgs", "watch.getPastLogs", "done"}

\* C12: since() resolves with exactly the events of the range that equal
\* every non-null filter value, once each: none is left out, no other is
\* returned.
C12_SinceReturnsMatches ==
    SinceResolved =>
        /\ BlocksOf(sinceEvents) = MatchingBlocks
        /\ Len(sinceEvents) = Cardinality(MatchingBlocks)

\* C13: for the same event, filter values and logs, the watcher's poll of a
\* block range emits the events since() returns for that range, and these
\* are exactly the events that equal every filter value given.
C13_WatcherFiltersAsSince ==
    eventPc = "done" =>
        /\ watchEvents = sinceEvents
        /\ BlocksOf(watchEvents) = MatchingBlocks

\* new() has been called, on an ABI without a constructor entry, and has
\* returned or thrown.
NewCallDone == findFilter.type = "constructor" /\ findPc # "called"
NoConstructorEntry == \A i \in 1..Len(findDefs) : findDefs[i].type # "constructor"

\* C25: on an ABI without a constructor entry, new() without arguments
\* resolves to a constructor definition without inputs, and new() with one
\* or more arguments finds no definition.
C25_ImplicitConstructor ==
    (NewCallDone /\ NoConstructorEntry) =>
        IF Len(findFilter.args) = 0
        THEN /\ findPc = "bound"
             /\ foundDef.type = "constructor"
             /\ foundDef.inputs = <<>>
             /\ parsedArgs = <<>>
        ELSE findPc = "noDef"

\* new() without arguments on an ABI that holds one function and no
\* constructor has returned its bound call.
C25_Witness ==
    /\ NewCallDone /\ NoConstructorEntry
    /\ Len(findDefs) = 1
    /\ findFilter.args = <<>>
    /\ findPc = "bound"

\* ------------------------------------------------------------------------
\* The bindings of one process and the receipts they augment: the address
\* setter, the constructor, clone, new() and augmentReceipt, in the revision
\* of src/src/index.js and in the current one.
\* ------------------------------------------------------------------------

Revisions == {"index.js", "current"}

\* The sending binding and one other.
BindIds == {1, 2}

\* What an address is set from: a hex address in a letter case, an ENS name
\* (which resolves to account 2), another string, or no string at all.
EnsName == [id |-> 2, form |-> "name"]
OtherString == [id |-> 0, form |-> "string"]
Given == Addrs \cup {EnsName, OtherString, NoAddress}

\* ethjs.isValidAddress, isENSAddress
isValidAddress(v) == v \in Addrs
isENSAddress(v) == v.form = "name"

\* set address(v): the value stored in _address.
StoredAddressRaw(v) == v
StoredAddress(v) == IF isValidAddress(v) THEN toChecksumAddress(v) ELSE v

\* set address(v) of index.js throws for a string that is neither.
SetterThrows(rev, v) == rev = "index.js" /\ v = OtherString

\* set address(v) of index.js: the keys it adds to ABI_CACHE at once, and
\* whether it starts an ENS resolution that will add one.
SetterKeys(rev, v) == IF rev = "index.js" /\ isValidAddress(v) THEN {v} ELSE {}
SetterResolves(rev, v) == rev = "index.js" /\ isENSAddress(v)

\* The event signatures of the ABI the bindings share, and one of no ABI.
AbiEvents == {"E1"}
Signatures == {"E1", "E3"}

\* The logs of a receipt: the node reports addresses checksummed; account 3
\* belongs to no binding.
LogAddresses == {[id |-> n, form |-> "checksum"] : n \in {1, 2, 3}}
Logs == [address : LogAddresses, sig : Signatures]
Receipts == UNION {[1..n -> Logs] : n \in 1..MaxReceiptLogs}

\* decodeLogItem: the event entry of a log.
EventEntry(log) == [name |-> log.sig, address |-> log.address]
Entries(logs) == [n \in 1..Len(logs) |-> EventEntry(logs[n])]

\* _.groupBy(receipt.logs, 'address'): the positions of the logs, group by
\* group in the order the addresses first appear.
IsFirstOf(logs, n) == \A k \in 1..(n - 1) : logs[k].address # logs[n].address
RECURSIVE GroupedFrom(_, _)
GroupedFrom(logs, n) ==
    IF n > Len(logs) THEN <<>>
    ELSE (IF IsFirstOf(logs, n)
          THEN SelectSeq(logs, LAMBDA l : l.address = logs[n].address)
          ELSE <<>>) \o GroupedFrom(logs, n + 1)
groupBy(logs) == GroupedFrom(logs, 1)

\* augmentReceipt of index.js: a group is decoded with the binding's ABI if
\* its address is the transaction's, else with ABI_CACHE[address], and is
\* left out if there is none; decodeLogItem reads decoded.name, which throws
\* when no event of that ABI has the log's signature.
HasAbi(to, cache, contract) == contract = to \/ contract \in cache
augmentByAddress(to, cache, logs) ==
    LET known == SelectSeq(groupBy(logs), LAMBDA l : HasAbi(to, cache, l.address))
    IN  IF \E n \in 1..Len(known) : known[n].sig \notin AbiEvents
        THEN [threw |-> TRUE, events |-> <<>>]
        ELSE [threw |-> FALSE, events |-> Entries(known)]

\* augmentReceipt of the current revision: a log is decoded if EVENT_CACHE
\* holds its signature.
augmentBySignature(cache, logs) ==
    [threw |-> FALSE,
     events |-> Entries(SelectSeq(logs, LAMBDA l : l.sig \in cache))]

\* No binding yet.
InitBind ==
    /\ revision \in Revisions
    /\ built = {}
    /\ bindAddress = [i \in BindIds |-> NoAddress]
    /\ abiCache = {}
    /\ ensPending = FALSE
    /\ EVENT_CACHE = {}
    /\ augmented = <<>>

\* A state without any binding, for the specifications of other parts.
BindIdle ==
    /\ revision = "current"
    /\ built = {}
    /\ bindAddress = [i \in BindIds |-> NoAddress]
    /\ abiCache = {}
    /\ ensPending = FALSE
    /\ EVENT_CACHE = {}
    /\ augmented = <<>>

\* The process is followed up to the first receipt it augments.
NoReceiptYet == augmented = <<>>

\* this.address = v, on binding i.
Assign(i, v) ==
    /\ NoReceiptYet
    /\ ~SetterThrows(revision, v)
    /\ bindAddress' = [bindAddress EXCEPT ![i] = StoredAddress(v)]
    /\ abiCache' = abiCache \cup SetterKeys(revision, v)
    /\ ensPending' = (ensPending \/ SetterResolves(revision, v))

\* new FlexContract(abi, address): the constructor sets the address; the
\* current revision adds the events of the ABI to EVENT_CACHE.
Construct ==
    \E i \in BindIds \ built, v \in Given :
        /\ Assign(i, v)
        /\ built' = built \cup {i}
        /\ EVENT_CACHE' = (IF revision = "current" THEN EVENT_CACHE \cup AbiEvents
                           ELSE EVENT_CACHE)
        /\ UNCHANGED <<revision, augmented, nonBindVars>>

\* binding.clone({address: v}): _copy sets opts.address || inst._address.
Clone ==
    \E i \in built, j \in BindIds \ built, v \in Given :
        /\ Assign(j, IF v # NoAddress THEN v ELSE bindAddress[i])
        /\ built' = built \cup {j}
        /\ UNCHANGED <<revision, EVENT_CACHE, augmented, nonBindVars>>

\* binding.address = v
AssignAddress ==
    \E i \in built, v \in Given :
        /\ Assign(i, v)
        /\ bindAddress' # bindAddress
        /\ UNCHANGED <<revision, built, EVENT_CACHE, augmented, nonBindVars>>

\* The receipt of a deployment through binding i arrived: new() stores the
\* checksummed contractAddress, and index.js caches the ABI under it.
Deployed ==
    \E i \in built, a \in Addrs :
        /\ NoReceiptYet
        /\ bindAddress' = [bindAddress EXCEPT ![i] = toChecksumAddress(a)]
        /\ bindAddress' # bindAddress
        /\ abiCache' = (IF revision = "index.js"
                        THEN abiCache \cup {toChecksumAddress(a)} ELSE abiCache)
        /\ UNCHANGED <<revision, built, ensPending, EVENT_CACHE, augmented,
                       nonBindVars>>

\* ensResolve(name) resolved with the checksummed address: index.js caches
\* the ABI under it.
EnsResolved ==
    /\ NoReceiptYet
    /\ ensPending
    /\ ensPending' = FALSE
    /\ abiCache' = abiCache \cup {toChecksumAddress(EnsName)}
    /\ UNCHANGED <<revision, built, bindAddress, EVENT_CACHE, augmented,
                   nonBindVars>>

\* The receipt of a transaction sent to the contract of binding i arrived
\* and is augmented.
Augment ==
    \E i \in built, logs \in Receipts :
        /\ NoReceiptYet
        /\ isValidAddress(bindAddress[i])
        /\ augmented' = <<[sender |-> i, logs |-> logs,
                           result |-> IF revision = "index.js"
                                      THEN augmentByAddress(bindAddress[i], abiCache, logs)
                                      ELSE augmentBySignature(EVENT_CACHE, logs)]>>
        /\ UNCHANGED <<revision, built, bindAddress, abiCache, ensPending,
                       EVENT_CACHE, nonBindVars>>

NextBind ==
    \/ Construct
    \/ Clone
    \/ AssignAddress
    \/ Deployed
    \/ EnsResolved
    \/ Augment

\* ------------------------------------------------------------------------
\* One invocation of a generated method, of new() or of an event accessor,
\* and one operation of the bound call it returns: initMethods, initEvents,
\* createBoundFunctionCall, createCallOpts, createCallData, resolveCallArgs,
\* getPastEvents and watchEvents of the current revision.
\* ------------------------------------------------------------------------

\* Argument values (none of them an object), and where an address comes
\* from: nowhere, a hex address, or a name to be resolved.
CallValues == {"null", "undefined", "number", "hex", "name"}
AddressSources == {"none", "hex", "name"}
isNil(v) == v \in {"null", "undefined"}
isString(v) == v \in {"hex", "name"}

\* The definitions invoked: input a is of type address (and indexed, in an
\* event), the others are numbers.
CallDefs == [type : {"function", "constructor", "event"},
             inputs : {<<>>, <<"a">>, <<"a", "b">>}]
IsAddressInput(name) == name = "a"
CallArgLists == UNION {[1..n -> CallValues] : n \in 0..MaxCallArgs}

\* The values as findDef and parseFunctionArgs see them.
AsArgument(v) == IF v = "undefined" THEN UndefinedValue ELSE Scalar(1)
AsArguments(vs) == [i \in 1..Len(vs) |-> AsArgument(vs[i])]

\* The operations of a bound call.
Operations(def) ==
    IF def.type = "event" THEN {"since", "watch"} ELSE {"gas", "call", "encode", "send"}

\* A request to a collaborator: inst._eth.resolve(v), which goes to the
\* network for a name only, or an RPC method.
ResolveOnNetwork(v) == [kind |-> "resolve", what |-> v, network |-> TRUE]
Resolve(v) == [kind |-> "resolve", what |-> v, network |-> (v = "name")]
Rpc(method) == [kind |-> "rpc", what |-> method, network |-> TRUE]

\* The generated method: if (!def) throw.
NotFoundIgnored(def) == FALSE
NotFound(def) == def = Undefined

\* The address createCallOpts resolves: opts.to || opts.address ||
\* inst.address, where encode() puts NULL_ADDRESS in place of a missing
\* opts.to; getPastEvents and watchEvents take opts.address || inst._address.
AddressSource(mode, optsTo, bound) ==
    IF optsTo # "none" THEN optsTo
    ELSE IF mode = "encode" THEN "hex"
    ELSE bound

\* sendBoundFunction and callBoundFunction:
\* if (!callOpts.to && def.type != 'constructor') throw
NeedsAddressNever(def) == FALSE
NeedsAddress(def) == def.type # "constructor"

\* resolveCallArgs: the requests resolveAddresses makes, for the string
\* values of the inputs of type address, in input order.
RECURSIVE ArgumentRequests(_, _, _)
ArgumentRequests(def, values, i) ==
    IF i > Len(def.inputs) THEN <<>>
    ELSE (IF IsAddressInput(def.inputs[i]) /\ isString(values[i])
          THEN <<Resolve(values[i])>> ELSE <<>>)
         \o ArgumentRequests(def, values, i + 1)

\* normalizeEncodeInput: throws for a nil value.
normalizeEncodeInputLenient(values) == FALSE
normalizeEncodeInputThrows(values) == \E i \in 1..Len(values) : isNil(values[i])

\* Whether a request that went to the network may fail.
Outcomes(reqs) ==
    IF \E n \in 1..Len(reqs) : reqs[n].network THEN BOOLEAN ELSE {TRUE}

\* The accessor is about to be invoked.
InitCall ==
    /\ callDef \in CallDefs
    /\ callGiven \in CallArgLists
    /\ callOptsTo \in AddressSources
    /\ callAddress \in {"none", "hex"}
    /\ callOptsData \in BOOLEAN
    /\ callBytecode \in BOOLEAN
    /\ callPc = "invoke"
    /\ callBound = Undefined
    /\ callMode = ""
    /\ callTo = "none"
    /\ resolvedTo = "none"
    /\ requests = <<>>
    /\ callResult = ""

\* A state without any invocation, for the specifications of other parts.
CallIdle ==
    /\ callDef = [type |-> "function", inputs |-> <<>>]
    /\ callGiven = <<>>
    /\ callOptsTo = "none"
    /\ callAddress = "none"
    /\ callOptsData = FALSE
    /\ callBytecode = FALSE
    /\ callPc = "threw"
    /\ callBound = Undefined
    /\ callMode = ""
    /\ callTo = "none"
    /\ resolvedTo = "none"
    /\ requests = <<>>
    /\ callResult = ""

\* inst.name(...args), inst.new(...args): findDef, a throw if it found
\* nothing, then createBound...Call, whose parseFunctionArgs may throw.
Invoke ==
    /\ callPc = "invoke"
    /\ LET fargs == AsArguments(callGiven)
           def == findDef(<<callDef>>,
                          [type |-> IF callDef.type = "constructor"
                                    THEN "constructor" ELSE "",
                           args |-> fargs])
       IN  IF NotFound(def)
           THEN callPc' = "threw" /\ UNCHANGED callBound
           ELSE IF ~parseFunctionArgs(def, fargs).ok
           THEN callPc' = "threw" /\ UNCHANGED callBound
           ELSE callPc' = "bound" /\ callBound' = def
    /\ UNCHANGED <<callDef, callGiven, callOptsTo, callAddress, callOptsData, callBytecode,
                   callMode, callTo, resolvedTo, requests, callResult, nonCallVars>>

\* gas(), call(), encode(), send(), since() or watch() is called and runs
\* to its first await: createCallOpts asks for the address unless the
\* definition is a constructor; getPastEvents and watchEvents fail without
\* an address.
Operate ==
    \E mode \in Operations(callBound) :
        LET source == AddressSource(mode, callOptsTo, callAddress) IN
        /\ callPc = "bound"
        /\ callMode' = mode
        /\ callTo' = source
        /\ IF callBound.type = "event"
           THEN IF source = "none"
                THEN /\ callPc' = "failed"
                     /\ callResult' = "error:noAddress"
                     /\ UNCHANGED requests
                ELSE /\ callPc' = "buildData"
                     /\ UNCHANGED <<requests, callResult>>
           ELSE IF callBound.type = "constructor"
           THEN /\ callPc' = "buildData"
                /\ UNCHANGED <<requests, callResult>>
           ELSE /\ callPc' = "awaitTo"
                /\ requests' = Append(requests, Resolve(source))
                /\ UNCHANGED callResult
        /\ UNCHANGED <<callDef, callGiven, callOptsTo, callAddress, callOptsData, callBytecode,
                       callBound, resolvedTo, nonCallVars>>

\* inst._eth.resolve(to) settles.
ToResolved ==
    /\ callPc = "awaitTo"
    /\ \E ok \in Outcomes(<<Resolve(callTo)>>) :
        IF ok
        THEN /\ callPc' = "buildData"
             /\ resolvedTo' = (IF callTo = "none" THEN "none" ELSE "hex")
             /\ UNCHANGED callResult
        ELSE /\ callPc' = "failed"
             /\ callResult' = "error:resolve"
             /\ UNCHANGED resolvedTo
    /\ UNCHANGED <<callDef, callGiven, callOptsTo, callAddress, callOptsData, callBytecode,
                   callBound, callMode, callTo, requests, nonCallVars>>

\* const data = opts.data || await createCallData(...): resolveCallArgs
\* resolves the address arguments, a constructor needs bytecode, then the
\* coder encodes. An event's filter takes only resolveCallArgs; its nil
\* values stay wildcards.
BuildData ==
    /\ callPc = "buildData"
    /\ IF callOptsData /\ callBound.type # "event"
       THEN /\ callPc' = "finish"
            /\ UNCHANGED <<requests, callResult>>
       ELSE LET asked == ArgumentRequests(callBound, callGiven, 1) IN
            /\ requests' = requests \o asked
            /\ \E ok \in Outcomes(asked) :
                IF ~ok
                THEN callPc' = "failed" /\ callResult' = "error:resolve"
                ELSE IF callBound.type = "constructor" /\ ~callBytecode
                THEN callPc' = "failed" /\ callResult' = "error:noBytecode"
                ELSE IF callBound.type # "event" /\ normalizeEncodeInputThrows(callGiven)
                THEN callPc' = "failed" /\ callResult' = "error:encoding"
                ELSE callPc' = "finish" /\ UNCHANGED callResult
    /\ UNCHANGED <<callDef, callGiven, callOptsTo, callAddress, callOptsData, callBytecode,
                   callBound, callMode, callTo, resolvedTo, nonCallVars>>

\* The rest of the operation: encode() returns the data; gas() asks for an
\* estimate; call() and send() need an address unless the definition is a
\* constructor; since() asks for the logs and the watcher for the height.
Finish ==
    /\ callPc = "finish"
    /\ IF callMode = "encode"
       THEN callPc' = "done" /\ callResult' = "data" /\ UNCHANGED requests
       ELSE IF callMode \in {"call", "send"} /\ resolvedTo = "none" /\ NeedsAddress(callBound)
       THEN callPc' = "failed" /\ callResult' = "error:noAddress" /\ UNCHANGED requests
       ELSE /\ callPc' = "done"
            /\ callResult' = callMode
            /\ requests' = Append(requests,
                  Rpc(CASE callMode = "gas" -> "estimateGas"
                        [] callMode = "call" -> "call"
                        [] callMode = "send" -> "send"
                        [] callMode = "since" -> "getPastLogs"
                        [] OTHER -> "getBlockNumber"))
    /\ UNCHANGED <<callDef, callGiven, callOptsTo, callAddress, callOptsData, callBytecode,
                   callBound, callMode, callTo, resolvedTo, nonCallVars>>

NextCall ==
    \/ Invoke
    \/ Operate
    \/ ToResolved
    \/ BuildData
    \/ Finish

\* ------------------------------------------------------------------------
\* Claims about the bindings of one process (checked under SpecBind).
\* ------------------------------------------------------------------------

Range(f) == {f[x] : x \in DOMAIN f}
TheReceipt == augmented[1]

\* The bindings other than the sender that hold the hex address `a` when
\* the receipt is augmented.
OthersAt(a) ==
    {b \in built \ {TheReceipt.sender} :
        isValidAddress(bindAddress[b]) /\ bindAddress[b].id = a.id}

\* Some binding, the sender included, holds the hex address `a`.
Registered(a) ==
    \E b \in built : isValidAddress(bindAddress[b]) /\ bindAddress[b].id = a.id

\* C22 as stated: in a receipt all of whose logs are events of the ABI, a
\* log emitted by the address another binding holds has its event entry,
\* whatever letter case that address was supplied in.
C22_OtherBindingDecoded ==
    (augmented # <<>> /\ \A n \in DOMAIN TheReceipt.logs :
                            TheReceipt.logs[n].sig \in AbiEvents) =>
        \A n \in DOMAIN TheReceipt.logs :
            OthersAt(TheReceipt.logs[n].address) # {} =>
                /\ ~TheReceipt.result.threw
                /\ EventEntry(TheReceipt.logs[n]) \in Range(TheReceipt.result.events)

\* C23 as stated: augmenting never fails; a log whose address no binding
\* holds, or whose signature is in no ABI, has no event entry, and every
\* other log of the receipt has one.
C23_UnresolvableSkipped ==
    augmented # <<>> =>
        /\ ~TheReceipt.result.threw
        /\ \A n \in DOMAIN TheReceipt.logs :
            LET log == TheReceipt.logs[n]
            IN  (EventEntry(log) \in Range(TheReceipt.result.events))
                    <=> (Registered(log.address) /\ log.sig \in AbiEvents)

\* C24: the address of a binding, when it is a hex address, is in
\* checksummed form, after any construction, assignment, clone and deploy.
C24_AddressChecksummed ==
    \A i \in built : isValidAddress(bindAddress[i]) => bindAddress[i].form = "checksum"

\* Two bindings, one a clone, hold hex addresses, and the address of one of
\* them was supplied in lower case (index.js kept it as the cache key).
C24_Witness ==
    /\ built = BindIds
    /\ \A i \in built : isValidAddress(bindAddress[i])
    /\ \E i \in built : [id |-> bindAddress[i].id, form |-> "lower"] \in abiCache

\* ------------------------------------------------------------------------
\* Decoding the outputs of a call and the arguments of a log:
\* normalizeDecodedOutput and normalizeDecodedValue of the coder,
\* decodeCallOutput and decodeLogItem of the current revision.
\* ------------------------------------------------------------------------

\* The names of outputs ("" is no name) and their types; the values the ABI
\* decoder hands over are numbered.
OutputNames == {"", "r0", "r1", "0", "1"}
OutputTypes == {"uint256", "address"}
OutputEntries == [name : OutputNames, type : OutputTypes]
OutputLists == UNION {[1..n -> OutputEntries] : n \in 1..MaxOutputs}
RawValues == 1..MaxRawValue

\* The property key of position i, counted from 0 as the code counts.
DigitKeys == <<"0", "1", "2", "3", "4", "5", "6", "7", "8", "9">>
PositionKey(i) == DigitKeys[i + 1]

\* normalizeDecodedValue: an address in checksum form, an integer as a
\* decimal string.
normalizeDecodedValue(type, v) ==
    [form |-> IF type = "address" THEN "checksum" ELSE "decimal", of |-> v]

\* normalized[k] = v
SetKey(obj, k, v) == [x \in DOMAIN obj \cup {k} |-> IF x = k THEN v ELSE obj[x]]
EmptyObject == [x \in {} |-> 0]

\* normalizeDecodedOutput: position after position, the name first and the
\* position after it.
RECURSIVE NormalizeFrom(_, _, _, _)
NormalizeFrom(outs, dec, i, normalized) ==
    IF i >= Len(outs) THEN normalized
    ELSE LET output == outs[i + 1]
             v == normalizeDecodedValue(output.type, dec[i + 1])
             named == IF output.name # ""
                      THEN SetKey(normalized, output.name, v)
                      ELSE normalized
         IN  NormalizeFrom(outs, dec, i + 1, SetKey(named, PositionKey(i), v))
normalizeDecodedOutput(outs, dec) == NormalizeFrom(outs, dec, 0, EmptyObject)

\* decodeCallOutput: a single value if there is only one output.
decodeCallOutput(outs, dec) ==
    IF Len(outs) = 1
    THEN normalizeDecodedOutput(outs, dec)[PositionKey(0)]
    ELSE normalizeDecodedOutput(outs, dec)

\* The data of a call or of a log are about to be decoded.
InitDecode ==
    /\ decodeKind \in {"call", "log"}
    /\ decOutputs \in OutputLists
    /\ decValues \in [1..Len(decOutputs) -> RawValues]
    /\ decodePc = "encoded"
    /\ decodeResult = EmptyObject

\* A state without any decoding, for the specifications of other parts.
DecodeIdle ==
    /\ decodeKind = "call"
    /\ decOutputs = <<>>
    /\ decValues = <<>>
    /\ decodePc = "decoded"
    /\ decodeResult = EmptyObject

\* callBoundFunction returns decodeCallOutput(def, result).
DecodeCall ==
    /\ decodePc = "encoded"
    /\ decodeKind = "call"
    /\ decodePc' = "decoded"
    /\ decodeResult' = decodeCallOutput(decOutputs, decValues)
    /\ UNCHANGED <<decodeKind, decOutputs, decValues, nonDecodeVars>>

\* decodeLogItem: args is coder.decodeLogItemArgs(def, log).
DecodeLog ==
    /\ decodePc = "encoded"
    /\ decodeKind = "log"
    /\ decodePc' = "decoded"
    /\ decodeResult' = normalizeDecodedOutput(decOutputs, decValues)
    /\ UNCHANGED <<decodeKind, decOutputs, decValues, nonDecodeVars>>

NextDecode ==
    \/ DecodeCall
    \/ DecodeLog

\* ------------------------------------------------------------------------
\* Block directives: resolveBlockDirective and its use by getPastEvents in
\* src/src/index.js.
\* ------------------------------------------------------------------------

Directives == (0 - MaxDirective - 1)..MaxDirective
Heights == 0..MaxHeight

\* What a directive resolves to: the string 'latest' or a number.
Latest == [latest |-> TRUE, n |-> 0]
BlockNumber(n) == [latest |-> FALSE, n |-> n]
Unresolved == [latest |-> FALSE, n |-> NIL]

\* n += (directive+1)
OffsetFromLast(n, directive) == n + directive
Offset(n, directive) == n + (directive + 1)

\* Whether resolveBlockDirective asks for the height.
ReadsHeight(directive) == directive < 0 /\ directive # -1

\* resolveBlockDirective(inst, directive), with n the height read: the value
\* returned, or a throw.
resolveBlockDirective(directive, n) ==
    IF directive < 0
    THEN IF directive = -1 THEN [ok |-> TRUE, value |-> Latest]
         ELSE IF Offset(n, directive) < 0 THEN [ok |-> FALSE, value |-> Unresolved]
         ELSE [ok |-> TRUE, value |-> BlockNumber(Offset(n, directive))]
    ELSE [ok |-> TRUE, value |-> BlockNumber(directive)]

\* getPastEvents is about to build its filter.
InitBlock ==
    /\ dirFrom \in Directives
    /\ dirTo \in Directives
    /\ latestBlock \in Heights
    /\ blockPc = "fromBlock"
    /\ filterFrom = Unresolved
    /\ filterTo = Unresolved
    /\ readFrom = NIL
    /\ readTo = NIL
    /\ logsRequests = <<>>

\* A state without any query, for the specifications of other parts.
BlockIdle ==
    /\ dirFrom = 0
    /\ dirTo = 0
    /\ latestBlock = 0
    /\ blockPc = "done"
    /\ filterFrom = Unresolved
    /\ filterTo = Unresolved
    /\ readFrom = NIL
    /\ readTo = NIL
    /\ logsRequests = <<>>

\* A block is mined while the query is under way.
BlockMined ==
    /\ blockPc \in {"fromBlock", "toBlock", "getPastLogs"}
    /\ latestBlock < MaxHeight
    /\ latestBlock' = latestBlock + 1
    /\ UNCHANGED <<dirFrom, dirTo, blockPc, filterFrom, filterTo, readFrom, readTo,
                   logsRequests, nonBlockVars>>

\* fromBlock: await resolveBlockDirective(inst, opts.fromBlock)
ResolveFromBlock ==
    /\ blockPc = "fromBlock"
    /\ LET r == resolveBlockDirective(dirFrom, latestBlock) IN
        /\ readFrom' = (IF ReadsHeight(dirFrom) THEN latestBlock ELSE NIL)
        /\ filterFrom' = r.value
        /\ blockPc' = (IF r.ok THEN "toBlock" ELSE "failed")
    /\ UNCHANGED <<dirFrom, dirTo, latestBlock, filterTo, readTo, logsRequests,
                   nonBlockVars>>

\* toBlock: await resolveBlockDirective(inst, opts.toBlock)
ResolveToBlock ==
    /\ blockPc = "toBlock"
    /\ LET r == resolveBlockDirective(dirTo, latestBlock) IN
        /\ readTo' = (IF ReadsHeight(dirTo) THEN latestBlock ELSE NIL)
        /\ filterTo' = r.value
        /\ blockPc' = (IF r.ok THEN "getPastLogs" ELSE "failed")
    /\ UNCHANGED <<dirFrom, dirTo, latestBlock, filterFrom, readFrom, logsRequests,
                   nonBlockVars>>

\* const raw = await inst._web3.eth.getPastLogs(filter)
RequestLogs ==
    /\ blockPc = "getPastLogs"
    /\ logsRequests' = Append(logsRequests, [fromBlock |-> filterFrom, toBlock |-> filterTo])
    /\ blockPc' = "done"
    /\ UNCHANGED <<dirFrom, dirTo, latestBlock, filterFrom, filterTo, readFrom, readTo,
                   nonBlockVars>>

NextBlock ==
    \/ BlockMined
    \/ ResolveFromBlock
    \/ ResolveToBlock
    \/ RequestLogs

\* ------------------------------------------------------------------------
\* Gas limit and gas price: sendTx, estimateGasRaw and getGasPrice of
\* src/src/index.js. A bonus of 0.01 is one percent; the model counts
\* bonuses in percent.
\* ------------------------------------------------------------------------

BonusPercents == {-50, 0, 33, 50}
GasEstimates == {100, 101}
GasPrices == {200}
GivenGasLimits == {NIL, 500}
GivenGasPrices == {NIL, 700}

\* _.isNumber(bonus)
isNumber(v) == v # NIL

\* Math.ceil(gas * (1 + bonus))
CeilWithBonus(gas, bonus) == (gas * (100 + bonus) + 99) \div 100
\* new BigNumber(price).times(1 + bonus)
TimesWithBonus(price, bonus) == (price * (100 + bonus)) \div 100

\* The fields of the binding a bonus is read from: gasBonus and
\* gasPriceBonus are set by the constructor; bonus is never set.
Binding == [gasBonus |-> instGasBonus, gasPriceBonus |-> instGasPriceBonus, bonus |-> NIL]

\* v || 0, for a number or undefined
OrZero(v) == IF v = NIL THEN 0 ELSE v

\* estimateGasRaw: bonus = (_.isNumber(bonus) ? bonus : inst.bonus) || 0
GasBonusUsed(binding, bonus) ==
    OrZero(IF isNumber(bonus) THEN bonus ELSE binding.bonus)

\* getGasPrice: bonus = (_.isNumber(bonus) ? bonus : inst.gasPriceBonus) || 0
GasPriceBonusUsed(binding, bonus) ==
    OrZero(IF isNumber(bonus) THEN bonus ELSE binding.gasPriceBonus)

\* sendTx has built its call options and is about to fill in the gas.
InitGas ==
    /\ instGasBonus \in BonusPercents
    /\ instGasPriceBonus \in BonusPercents
    /\ optsGasBonus \in BonusPercents \cup {NIL}
    /\ optsGasPriceBonus \in BonusPercents \cup {NIL}
    /\ optsGasLimit \in GivenGasLimits
    /\ optsGasPrice \in GivenGasPrices
    /\ estimate \in GasEstimates
    /\ networkPrice \in GasPrices
    /\ gasPc = "gasPrice"
    /\ txGasPrice = optsGasPrice
    /\ txGasLimit = optsGasLimit

\* A state without any transaction, for the specifications of other parts.
GasIdle ==
    /\ instGasBonus = 0
    /\ instGasPriceBonus = 0
    /\ optsGasBonus = NIL
    /\ optsGasPriceBonus = NIL
    /\ optsGasLimit = NIL
    /\ optsGasPrice = NIL
    /\ estimate = 100
    /\ networkPrice = 200
    /\ gasPc = "sent"
    /\ txGasPrice = NIL
    /\ txGasLimit = NIL

\* if (!callOpts.gasPrice) callOpts.gasPrice = await getGasPrice(inst, opts.gasPriceBonus)
SetGasPrice ==
    /\ gasPc = "gasPrice"
    /\ gasPc' = "gasLimit"
    /\ txGasPrice' = (IF txGasPrice = NIL
                      THEN TimesWithBonus(networkPrice,
                                          GasPriceBonusUsed(Binding, optsGasPriceBonus))
                      ELSE txGasPrice)
    /\ UNCHANGED <<instGasBonus, instGasPriceBonus, optsGasBonus, optsGasPriceBonus,
                   optsGasLimit, optsGasPrice, estimate, networkPrice, txGasLimit,
                   nonGasVars>>

\* if (!callOpts.gasLimit) callOpts.gasLimit = await estimateGasRaw(inst, callOpts, opts.gasBonus)
SetGasLimit ==
    /\ gasPc = "gasLimit"
    /\ gasPc' = "send"
    /\ txGasLimit' = (IF txGasLimit = NIL
                      THEN CeilWithBonus(estimate, GasBonusUsed(Binding, optsGasBonus))
                      ELSE txGasLimit)
    /\ UNCHANGED <<instGasBonus, instGasPriceBonus, optsGasBonus, optsGasPriceBonus,
                   optsGasLimit, optsGasPrice, estimate, networkPrice, txGasPrice,
                   nonGasVars>>

\* sent = inst._web3.eth.sendTransaction(normalizeCallOpts(callOpts))
SendTransaction ==
    /\ gasPc = "send"
    /\ gasPc' = "sent"
    /\ UNCHANGED <<instGasBonus, instGasPriceBonus, optsGasBonus, optsGasPriceBonus,
                   optsGasLimit, optsGasPrice, estimate, networkPrice, txGasPrice,
                   txGasLimit, nonGasVars>>

NextGas ==
    \/ SetGasPrice
    \/ SetGasLimit
    \/ SendTransaction

\* ------------------------------------------------------------------------
\* Cloning: _copy, clone and the accessors of gasBonus and gasPriceBonus, in
\* the current revision and in src/src/index.js.
\* ------------------------------------------------------------------------

CloneRevisions == {"current", "index.js"}
Original == "original"
TheClone == "clone"
PropertyNames == {"address", "bytecode", "gasBonus", "gasPriceBonus"}

\* The values of a property: what the original starts with, what the
\* options of clone() give, and what is assigned later.
InitialValue == "initial"
OptionValue == "option"
AssignedValue == "assigned"
PropertyValues == {AssignedValue}
\* No value: undefined.
Absent == "absent"

\* The eth object of the original, and one handed to clone() as opts.eth.
OwnEth == "own"
GivenEth == "given"

\* A binding of the current revision keeps no bonus of its own; one of
\* index.js keeps both.
NoBinding == [address |-> Absent, bytecode |-> Absent, eth |-> Absent, gasBonus |-> Absent, gasPriceBonus |-> Absent]
NewBinding(rev) ==
    [address |-> InitialValue, bytecode |-> InitialValue, eth |-> OwnEth,
     gasBonus |-> IF rev = "index.js" THEN InitialValue ELSE Absent,
     gasPriceBonus |-> IF rev = "index.js" THEN InitialValue ELSE Absent]

\* get gasBonus() { return this._eth.gasBonus; } and its like; a plain field
\* in index.js.
Get(rev, bs, es, b, name) ==
    IF name \in {"gasBonus", "gasPriceBonus"} /\ rev = "current"
    THEN es[bs[b].eth][name]
    ELSE bs[b][name]

\* set gasBonus(v) { return this._eth.gasBonus = v; } and its like: the
\* bindings and the eth objects after the assignment.
Set(rev, bs, es, b, name, v) ==
    IF name \in {"gasBonus", "gasPriceBonus"} /\ rev = "current"
    THEN [bindings |-> bs, eths |-> [es EXCEPT ![bs[b].eth][name] = v]]
    ELSE [bindings |-> [bs EXCEPT ![b][name] = v], eths |-> es]

\* opts.x || inst.x
OrElse(given, fallback) == IF given # Absent THEN given ELSE fallback

\* The options of clone(): each property given or not, and an eth object
\* given or not (index.js has no such option).
CloneOptions(rev) ==
    [address : {Absent, OptionValue}, bytecode : {Absent, OptionValue},
     gasBonus : {Absent, OptionValue}, gasPriceBonus : {Absent, OptionValue},
     eth : IF rev = "current" THEN BOOLEAN ELSE {FALSE}]
NoOptions == [address |-> Absent, bytecode |-> Absent, gasBonus |-> Absent, gasPriceBonus |-> Absent, eth |-> FALSE]

\* _copy(inst, opts): the fields of the new binding.
CopyOf(rev, from, opts) ==
    [address |-> OrElse(opts.address, from.address),
     bytecode |-> OrElse(opts.bytecode, from.bytecode),
     eth |-> IF opts.eth THEN GivenEth ELSE from.eth,
     gasBonus |-> IF rev = "index.js" THEN OrElse(opts.gasBonus, from.gasBonus) ELSE Absent,
     gasPriceBonus |-> IF rev = "index.js" THEN OrElse(opts.gasPriceBonus, from.gasPriceBonus) ELSE Absent]

\* A binding has been constructed.
InitClone ==
    /\ cloneRevision \in CloneRevisions
    /\ bindings = [b \in {Original, TheClone} |->
                      IF b = Original THEN NewBinding(cloneRevision) ELSE NoBinding]
    /\ eths = [e \in {OwnEth, GivenEth} |->
                  [gasBonus |-> IF e = OwnEth THEN InitialValue ELSE OptionValue,
                   gasPriceBonus |-> IF e = OwnEth THEN InitialValue ELSE OptionValue]]
    /\ clonePc = "original"
    /\ cloneOpts = NoOptions
    /\ assigned = Absent

\* A state without any clone, for the specifications of other parts.
CloneIdle ==
    /\ cloneRevision = "current"
    /\ bindings = [b \in {Original, TheClone} |-> NoBinding]
    /\ eths = [e \in {OwnEth, GivenEth} |-> [gasBonus |-> Absent, gasPriceBonus |-> Absent]]
    /\ clonePc = "idle"
    /\ cloneOpts = NoOptions
    /\ assigned = Absent

\* clone(opts): new FlexContract(this, opts), which is _copy.
CloneBinding ==
    \E opts \in CloneOptions(cloneRevision) :
        /\ clonePc = "original"
        /\ clonePc' = "cloned"
        /\ cloneOpts' = opts
        /\ bindings' = [bindings EXCEPT ![TheClone] = CopyOf(cloneRevision, bindings[Original], opts)]
        /\ UNCHANGED <<cloneRevision, eths, assigned, nonCloneVars>>

\* binding.name = v, on the original or the clone.
AssignProperty ==
    \E b \in {Original, TheClone}, name \in PropertyNames, v \in PropertyValues :
        LET after == Set(cloneRevision, bindings, eths, b, name, v) IN
        /\ clonePc = "cloned"
        /\ bindings' = after.bindings
        /\ eths' = after.eths
        /\ assigned' = b
        /\ UNCHANGED <<cloneRevision, clonePc, cloneOpts, nonCloneVars>>

NextClone ==
    \/ CloneBinding
    \/ AssignProperty

\* ------------------------------------------------------------------------
\* Claims about an invocation and the operations of its bound call
\* ------------------------------------------------------------------------

\* The invocation has a shape no definition takes: the number of values
\* differs from the number of inputs, and it is not new() without arguments,
\* which has the implicit constructor.
NoMatch ==
    /\ Len(callGiven) # Len(callDef.inputs)
    /\ ~(callDef.type = "constructor" /\ callGiven = <<>>)

NameToResolve ==
    \/ callBound.type # "constructor" /\ callOptsTo = "name"
    \/ \E i \in 1..Len(callBound.inputs) :
          IsAddressInput(callBound.inputs[i]) /\ callGiven[i] = "name"
NoNetworkRequest == \A n \in 1..Len(requests) : ~requests[n].network
NoRpcRequest == \A n \in 1..Len(requests) : requests[n].kind # "rpc"

\* C27 as stated: no request before an operation is called, and encode()
\* makes no network request whatever the arguments are.
C27_EncodeOffline ==
    /\ callMode = "" => requests = <<>>
    /\ callMode = "encode" => NoNetworkRequest

\* C27: no request is made before an operation of the bound call is called;
\* encode() makes no RPC request, and no network request at all unless a
\* name is given as the address of the contract or as an address argument.
C27_EncodeOfflineUnlessNamed ==
    /\ callMode = "" => requests = <<>>
    /\ callMode = "encode" => NoRpcRequest /\ (~NameToResolve => NoNetworkRequest)
C27_Witness ==
    /\ callMode = "encode" /\ callResult = "data"
    /\ \E i \in 1..Len(callBound.inputs) :
          IsAddressInput(callBound.inputs[i]) /\ callGiven[i] = "hex"
    /\ requests # <<>>

NilGiven == \E i \in 1..Len(callGiven) : isNil(callGiven[i])
Ended == callPc \in {"done", "failed"}
SendSubmitted == \E n \in 1..Len(requests) : requests[n] = Rpc("send")

\* C29 as stated: send() with a nil argument ends with an encoding error and
\* without a transaction.
C29_NilRejected ==
    (callMode = "send" /\ NilGiven /\ Ended)
        => (callResult = "error:encoding" /\ ~SendSubmitted)

\* C29: send() with a nil argument and without call data in its options
\* never submits a transaction and never succeeds; it ends with an encoding
\* error, unless resolving a name failed first or a constructor has no
\* bytecode.
C29_NilRejectedWithoutData ==
    (callMode = "send" /\ NilGiven /\ ~callOptsData)
        => /\ ~SendSubmitted
           /\ callPc # "done"
           /\ Ended => callResult \in {"error:encoding", "error:resolve", "error:noBytecode"}
           /\ (Ended /\ ~NameToResolve /\ (callBound.type = "constructor" => callBytecode))
                 => callResult = "error:encoding"
C29_Witness ==
    /\ callMode = "send" /\ NilGiven /\ ~callOptsData
    /\ callPc = "failed" /\ callResult = "error:encoding"

NoAddressAnywhere == callOptsTo = "none" /\ callAddress = "none"

\* C30: send() of a function without an address in the options or on the
\* binding never submits a transaction and never succeeds, and nothing
\* happens after a failure; send() of a constructor never fails for want of
\* an address.
C30_SendNeedsAddress ==
    /\ []((callMode = "send" /\ callBound.type = "function" /\ NoAddressAnywhere)
            => (~SendSubmitted /\ callPc # "done"))
    /\ []((callMode = "send" /\ callBound.type = "constructor")
            => callResult # "error:noAddress")
    /\ [][callPc # "failed"]_vars
C30_Witness ==
    /\ callMode = "send" /\ callBound.type = "function" /\ NoAddressAnywhere
    /\ callPc = "failed" /\ callResult = "error:noAddress" /\ ~SendSubmitted

\* ------------------------------------------------------------------------
\* Claims about decoding
\* ------------------------------------------------------------------------

\* The result is an object with keys: the arguments of a log, or the
\* outputs of a call that has several.
DualKeyed == decodePc = "decoded" /\ (decodeKind = "log" \/ Len(decOutputs) > 1)

\* C28: in every decoded args object and every decoded multi-value output,
\* each position is a key, and the name of a position is a key that holds
\* the same value as the position, whatever the names are.
C28_DualKeyed ==
    DualKeyed =>
        \A i \in 0..(Len(decOutputs) - 1) :
            /\ PositionKey(i) \in DOMAIN decodeResult
            /\ decOutputs[i + 1].name # "" =>
                  /\ decOutputs[i + 1].name \in DOMAIN decodeResult
                  /\ decodeResult[decOutputs[i + 1].name] = decodeResult[PositionKey(i)]

\* ------------------------------------------------------------------------
\* Claims about the sequence of polls of one watcher
\* ------------------------------------------------------------------------

\* The activations of _poll that are suspended on a request.
InFlight == {p \in PollIds : polls[p].pc # "free"}

\* C33: at any time a watcher has at most one poll in flight or one timer
\* pending, never both and never two of either: a poll starts only when the
\* poll before it has ended and armed the timer that starts it.
C33_OnePollAtATime == Cardinality(InFlight) + Cardinality(pendingTimers) <= 1
C33_Witness ==
    /\ fetched # <<>>
    /\ \E p \in PollIds : polls[p].pc = "getPastLogs"
    /\ pendingTimers = {}
    /\ closeCalls > 0

\* C35: _lastBlock moves only in the step in which getPastLogs succeeds
\* (or _init reads the height); a failed getPastLogs leaves it where it was,
\* so the range that failed began right after it, and every request made
\* begins right after it.
C35_FailedPollKeepsLastBlock ==
    /\ [][(fetched' = fetched /\ initPc' = initPc) => lastBlock' = lastBlock]_vars
    /\ [](failedFrom > 0 => failedFrom = lastBlock + 1)
    /\ [](\A p \in PollIds :
            polls[p].pc = "getPastLogs" => polls[p].fromBlock = lastBlock + 1)
C35_Witness ==
    /\ failedFrom > 0
    /\ \E p \in PollIds :
          /\ polls[p].pc = "getPastLogs"
          /\ polls[p].fromBlock = failedFrom
          /\ polls[p].toBlock > failedFrom

\* C36: _lastBlock never decreases; a request for logs is made only for a
\* height above it, and a poll that ends after getBlockNumber emits nothing,
\* fetches nothing and leaves it unchanged.
C36_LastBlockNeverDecreases ==
    /\ [][lastBlock # NIL => lastBlock' >= lastBlock]_vars
    /\ [](\A p \in PollIds :
            polls[p].pc = "getPastLogs"
                => (polls[p].currentBlock > lastBlock /\ polls[p].toBlock > lastBlock))
    /\ [][(\E p \in PollIds : polls[p].pc = "getBlockNumber" /\ polls'[p].pc = "free")
            => (emitted' = emitted /\ fetched' = fetched /\ lastBlock' = lastBlock)]_vars
\* The first poll has ended without a failure and without a fetch, with a
\* block above _lastBlock not yet reported to it or none mined.
C36_Witness ==
    /\ initPc = "done"
    /\ pollFailures = 0
    /\ fetched = <<>>
    /\ InFlight = {}
    /\ timer = 2
    /\ pendingTimers = {2}
    /\ lastBlock = 1

\* ------------------------------------------------------------------------
\* Claims about block directives
\* ------------------------------------------------------------------------

\* Directive d was resolved to value v, with the height l read for it, or
\* has failed.
ResolvedAsStated(d, l, v, failed) ==
    /\ d >= 0 => (~failed /\ v = BlockNumber(d))
    /\ d = -1 => (~failed /\ v = Latest)
    /\ d < -1 => /\ l # NIL
                 /\ l + d + 1 >= 0 => (~failed /\ v = BlockNumber(l + d + 1))
                 /\ l + d + 1 < 0 => failed
ToDone == blockPc \in {"getPastLogs", "done"}
FromFailed == blockPc = "failed" /\ filterFrom = Unresolved
ToFailed == blockPc = "failed" /\ filterFrom # Unresolved

DeployFailed ==
    /\ isDeploy
    /\ \/ promise = "rejected"
       \/ errorEmitted /\ receiptEmitted = "no"
       \/ receiptEmitted # "no" /\ ~txReceipt.status

\* C37: a deployment that has failed has assigned nothing: the address of
\* the binding and the keys of the ABI cache are what they were when new()
\* was called.
C37_FailedDeployChangesNothing ==
    DeployFailed => (address = initAddress /\ ABI_CACHE = {} /\ assignments = 0)
C37_Witness ==
    /\ DeployFailed
    /\ receiptEmitted = "heard"
    /\ wrapper.state = "rejected"
    /\ address = NoAddress

\* ------------------------------------------------------------------------
\* Claims about gas
\* ------------------------------------------------------------------------

\* The bonus to apply: the one of the call if given, else the binding's.
BonusAsStated(ofCall, ofBinding) == IF ofCall # NIL THEN ofCall ELSE ofBinding

\* C31: the gas price and gas limit of the transaction sent are the values
\* given in the options, without bonus, or else the network's price and the
\* estimate with the bonus of the call, or the binding's when the call gives
\* none.
C31_BonusApplied ==
    gasPc = "sent" =>
        /\ txGasPrice =
              (IF optsGasPrice # NIL THEN optsGasPrice
               ELSE (networkPrice * (100 + BonusAsStated(optsGasPriceBonus, instGasPriceBonus))) \div 100)
        /\ txGasLimit =
              (IF optsGasLimit # NIL THEN optsGasLimit
               ELSE (estimate * (100 + BonusAsStated(optsGasBonus, instGasBonus)) + 99) \div 100)

\* ------------------------------------------------------------------------
\* Claims about cloning
\* ------------------------------------------------------------------------

\* What reading a property of a binding gives.
Property(b, name) == Get(cloneRevision, bindings, eths, b, name)
Properties(b) == [name \in PropertyNames |-> Property(b, name)]
JustCloned == clonePc = "cloned" /\ assigned = Absent

\* C32: right after clone(opts), without an eth object among the options,
\* each of the four properties of the clone is the value in opts if there is
\* one and the original's otherwise, and the original has its properties as
\* before.
C32_CloneTakesOptions ==
    (JustCloned /\ ~cloneOpts.eth) =>
        /\ \A name \in PropertyNames :
              Property(TheClone, name) =
                  (IF cloneOpts[name] # Absent THEN cloneOpts[name] ELSE InitialValue)
        /\ \A name \in PropertyNames : Property(Original, name) = InitialValue

\* C38: an assignment to a property of the clone leaves every property of
\* the original as it was, and the other way round.
C38_CloneIndependent ==
    [][/\ assigned' = TheClone => Properties(Original)' = Properties(Original)
       /\ assigned' = Original => Properties(TheClone)' = Properties(TheClone)]_vars

\* ------------------------------------------------------------------------
\* Specifications
\* ------------------------------------------------------------------------

\* A watcher that has just been created, and nothing else.
\* No history is recorded.
WatchUnrecorded == pollFailures = NIL /\ closeCalls = NIL /\ failedFrom = NIL
WatchInit == InitWatch /\ WatchUnrecorded /\ TxIdle /\ SendIdle /\ FindIdle /\ EventIdle /\ BindIdle /\ CallIdle /\ DecodeIdle /\ BlockIdle /\ GasIdle /\ CloneIdle
SpecWatch == WatchInit /\ [][NextWatch]_vars

\* One watcher of a contract deployed in block 1, its history recorded.
WatchRecorded == pollFailures = 0 /\ closeCalls = 0 /\ failedFrom = 0
WatchLifeInit ==
    /\ InitWatch
    /\ chain = << <<>> >>
    /\ WatchRecorded
    /\ TxIdle /\ SendIdle /\ FindIdle /\ EventIdle /\ BindIdle /\ CallIdle /\ DecodeIdle /\ BlockIdle /\ GasIdle /\ CloneIdle
SpecWatchLife == WatchLifeInit /\ [][NextWatch]_vars

\* A state without any watcher activity.
WatchIdle ==
    /\ chain = <<>>
    /\ args = <<NIL, NIL>>
    /\ stop = TRUE
    /\ inst = "null"
    /\ timer = NIL
    /\ lastBlock = NIL
    /\ filter = <<>>
    /\ initPc = "failed"
    /\ polls = [p \in PollIds |-> FreePoll]
    /\ pendingTimers = {}
    /\ fetched = <<>>
    /\ emitted = <<>>
    /\ errors = 0
    /\ watchHeight = 0
    /\ initBlock = NIL
    /\ pollFailures = NIL
    /\ closeCalls = NIL
    /\ failedFrom = NIL

\* One transaction sent through a binding, and nothing else.
\* The order of the events is not recorded.
TxInit == InitTx /\ confOrder = NIL /\ WatchIdle /\ SendIdle /\ FindIdle /\ EventIdle /\ BindIdle /\ CallIdle /\ DecodeIdle /\ BlockIdle /\ GasIdle /\ CloneIdle
SpecTx == TxInit /\ [][NextTx]_vars

\* One send() of the current revision, and nothing else.
SendInit == InitSend /\ WatchIdle /\ TxIdle /\ FindIdle /\ EventIdle /\ BindIdle /\ CallIdle /\ DecodeIdle /\ BlockIdle /\ GasIdle /\ CloneIdle
SpecSend == SendInit /\ [][NextSend]_vars

\* The same, with the promise job queue run until it is empty.
RunJob ==
    \/ WrapperAfterSent
    \/ WrapperAfterTx
    \/ TxIdAfterSent
    \/ TxIdAfterHash
    \/ ConfirmedAfterSent
    \/ ConfirmedAfterTx
    \/ SetAddress
    \/ ConsumerResumes
SpecSendLive == SendInit /\ [][NextSend]_vars /\ WF_vars(RunJob)

\* One call of a generated method or of new(), and nothing else.
FindInit == InitFind /\ WatchIdle /\ TxIdle /\ SendIdle /\ EventIdle /\ BindIdle /\ CallIdle /\ DecodeIdle /\ BlockIdle /\ GasIdle /\ CloneIdle
SpecFind == FindInit /\ [][NextFind]_vars

\* One bound event call: a since() query, then a watcher over the same logs.
EventInit == InitEvent /\ WatchIdle /\ TxIdle /\ SendIdle /\ FindIdle /\ BindIdle /\ CallIdle /\ DecodeIdle /\ BlockIdle /\ GasIdle /\ CloneIdle
SpecEvent == EventInit /\ [][NextEvent]_vars

\* One successful or failing transaction of a deployed contract, the order
\* of its 'confirmation' events recorded.
ConfirmInit ==
    /\ InitTx
    /\ ~isDeploy
    /\ address.id = 1
    /\ confOrder = NoEventYet
    /\ WatchIdle /\ SendIdle /\ FindIdle /\ EventIdle /\ BindIdle /\ CallIdle /\ DecodeIdle /\ BlockIdle /\ GasIdle /\ CloneIdle
SpecConfirm == ConfirmInit /\ [][NextTx]_vars

\* The bindings of one process, and nothing else.
BindInit == InitBind /\ WatchIdle /\ TxIdle /\ SendIdle /\ FindIdle /\ EventIdle /\ CallIdle /\ DecodeIdle /\ BlockIdle /\ GasIdle /\ CloneIdle
SpecBind == BindInit /\ [][NextBind]_vars

\* One invocation and one operation of its bound call, and nothing else.
CallInit ==
    /\ InitCall
    /\ WatchIdle /\ TxIdle /\ SendIdle /\ FindIdle /\ EventIdle /\ BindIdle /\ DecodeIdle /\ BlockIdle /\ GasIdle /\ CloneIdle
SpecCall == CallInit /\ [][NextCall]_vars

\* One decoding, and nothing else.
DecodeInit ==
    /\ InitDecode
    /\ WatchIdle /\ TxIdle /\ SendIdle /\ FindIdle /\ EventIdle /\ BindIdle /\ CallIdle /\ BlockIdle /\ GasIdle /\ CloneIdle
SpecDecode == DecodeInit /\ [][NextDecode]_vars

\* One query for past events with its two block directives, and nothing else.
BlockInit ==
    /\ InitBlock
    /\ WatchIdle /\ TxIdle /\ SendIdle /\ FindIdle /\ EventIdle /\ BindIdle /\ CallIdle /\ DecodeIdle /\ GasIdle /\ CloneIdle
SpecBlock == BlockInit /\ [][NextBlock]_vars

\* The gas of one transaction, and nothing else.
GasInit ==
    /\ InitGas
    /\ WatchIdle /\ TxIdle /\ SendIdle /\ FindIdle /\ EventIdle /\ BindIdle /\ CallIdle /\ DecodeIdle /\ BlockIdle /\ CloneIdle
SpecGas == GasInit /\ [][NextGas]_vars

\* One binding, its clone and assignments to both, and nothing else.
CloneInit ==
    /\ InitClone
    /\ WatchIdle /\ TxIdle /\ SendIdle /\ FindIdle /\ EventIdle /\ BindIdle /\ CallIdle /\ DecodeIdle /\ BlockIdle /\ GasIdle
SpecClone == CloneInit /\ [][NextClone]_vars

====
